---- MODULE Spec2Model ----
(***************************************************************************)
(* A model of ozzo-dbx: the SQL preprocessor and the Query facade          *)
(* (db.go, query.go), the expression algebra (expression.go), SelectQuery  *)
(* and its clause builders (select.go, query_builder.go), the transaction  *)
(* wrapper (db.go), and the struct-to-column mapping with its cache        *)
(* (struct.go).                                                            *)
(*                                                                         *)
(* SQL text handled by the preprocessor is a sequence of one-character     *)
(* strings, so that the regular expressions of db.go are modelled by       *)
(* scanners over characters; so are column names, field names and tags.    *)
(* SQL fragments rendered by expressions are TLA+ strings built with \o.   *)
(* A Params map is a function from a finite set of names (strings) to      *)
(* values.  Each component has its own next-state relation and             *)
(* specification over the one initial state.                               *)
(***************************************************************************)
EXTENDS Integers, Sequences, FiniteSets, TLC

VARIABLES
  \* ---- the DB handle (db.go)
  driverName,     \* DB.driverName: selects the Builder
  \* ---- Query facade (query.go) and preprocessor (db.go)
  query,          \* the Query object, or NoQuery before NewQuery
  tpl,            \* the parts the caller wrote the query's SQL from
  heap,           \* Params maps by reference: map id -> Params
  ret,            \* what the last Query operation returned
  sent,           \* the call the last Query operation made on the Executor
  \* ---- an expression and its rendering (expression.go)
  bExp,           \* the expression the caller holds
  bParams,        \* the Params map the caller passes to Build
  bSql,           \* the fragment Build returned
  bPhase,         \* "none", "held" (constructed), "built"
  \* ---- a SelectQuery and its Build (select.go, query_builder.go)
  sel,            \* the SelectQuery, or NoSelect
  pass,           \* the Build in progress: position, Params map, clauses
  lastQuery,      \* the Query the caller holds from the last Build (sql, params)
  builds,         \* number of Builds made
  \* ---- a transaction run by Transactional (db.go)
  tx,             \* position, variant, state of the sql.Tx, calls, result
  \* ---- the structInfo cache (struct.go)
  structInfoMap,  \* structInfoMap: key -> structInfo object
  mutex,          \* muStructInfoMap: its holder, 0 if free
  callers,        \* per goroutine: position in getStructInfo, key, result
  built,          \* the keys structInfo objects were built for, in order
  stored,         \* the (key, object) pairs ever written to structInfoMap
  \* ---- the builders' statements and the model operations (builder*.go, model_query.go)
  bcall,          \* the last call made on a Builder, a ModelQuery or Bind, with its arguments
  mq              \* the ModelQuery, or NoModelQuery

queryVars == <<query, tpl, heap, ret, sent>>
expVars == <<bExp, bParams, bSql, bPhase>>
selectVars == <<sel, pass, lastQuery, builds>>
structVars == <<structInfoMap, mutex, callers, built, stored>>
modelVars == <<bcall, mq>>

nonDBVars == <<queryVars, expVars, selectVars, tx, structVars, modelVars>>
nonQueryVars == <<expVars, selectVars, tx, structVars, modelVars>>
nonExpVars == <<queryVars, selectVars, tx, structVars, modelVars>>
nonSelectVars == <<queryVars, expVars, tx, structVars, modelVars>>
nonTxVars == <<queryVars, expVars, selectVars, structVars, modelVars>>
nonStructVars == <<driverName, queryVars, expVars, selectVars, tx, modelVars>>

nonModelVars == <<expVars, selectVars, tx, structVars>>

vars == <<driverName, queryVars, expVars, selectVars, tx, structVars, modelVars>>

(***************************************************************************)
(* Generic helpers                                                         *)
(***************************************************************************)

\* Go values held in interface{}: nil, an integer, a []interface{}.
NilV == [t |-> "nil"]
IntV(i) == [t |-> "int", i |-> i]
ListV(items) == [t |-> "list", items |-> items]

\* The empty Params map (Params{}).
EmptyParams == [n \in {} |-> 0]

\* len(params)
ParamsLen(p) == Cardinality(DOMAIN p)

\* params[k] = v
ParamsSet(p, k, v) == [n \in (DOMAIN p) \cup {k} |-> IF n = k THEN v ELSE p[n]]

\* for k, v := range src { dst[k] = v }
ParamsMerge(dst, src) ==
  [n \in (DOMAIN dst) \cup (DOMAIN src) |-> IF n \in DOMAIN src THEN src[n] ELSE dst[n]]

\* The string made of the characters of cs.
RECURSIVE Str(_)
Str(cs) == IF cs = <<>> THEN "" ELSE cs[1] \o Str(Tail(cs))

\* strings.Join over a sequence of character sequences.
RECURSIVE JoinSeqs(_, _)
JoinSeqs(parts, sep) ==
  IF parts = <<>> THEN <<>>
  ELSE IF Len(parts) = 1 THEN parts[1]
  ELSE parts[1] \o sep \o JoinSeqs(Tail(parts), sep)

(***************************************************************************)
(* The dialects: BuilderFuncMap and the builders' placeholder and quoting  *)
(* overrides.                                                              *)
(***************************************************************************)

\* The driver names the model draws from; "other" is a name BuilderFuncMap
\* does not list.
Drivers == {"mysql", "postgres", "oci8", "mssql", "other"}

\* newBuilder: the builder family of a driver name; an unlisted name falls
\* back to the standard builder.
newBuilder(driver) ==
  CASE driver = "sqlite3" -> "sqlite"
    [] driver = "mysql" -> "mysql"
    [] driver \in {"postgres", "pgx"} -> "pgsql"
    [] driver = "mssql" -> "mssql"
    [] driver = "oci8" -> "oci"
    [] OTHER -> "standard"

DigitChar == <<"0", "1", "2", "3", "4", "5", "6", "7", "8", "9">>

\* fmt.Sprintf("%v", n) for n >= 0, as characters.
RECURSIVE Digits(_)
Digits(n) ==
  IF n < 10 THEN <<DigitChar[n + 1]>>
  ELSE Digits(n \div 10) \o <<DigitChar[(n % 10) + 1]>>

\* A mutant: the placeholder is numbered from 0.
GeneratePlaceholderFromZero(driver, i) ==
  CASE newBuilder(driver) = "pgsql" -> <<"$">> \o Digits(i - 1)
    [] newBuilder(driver) = "oci" -> <<":", "p">> \o Digits(i - 1)
    [] OTHER -> <<"?">>

\* Builder.GeneratePlaceholder(i)
GeneratePlaceholder(driver, i) ==
  CASE newBuilder(driver) = "pgsql" -> <<"$">> \o Digits(i)
    [] newBuilder(driver) = "oci" -> <<":", "p">> \o Digits(i)
    [] OTHER -> <<"?">>

\* The backtick character (SANY's strings cannot hold it).
Backtick == "BQ"

\* The opening and closing quote character of a builder family.
QuoteOpen(driver) ==
  CASE newBuilder(driver) \in {"mysql", "sqlite"} -> Backtick
    [] newBuilder(driver) = "mssql" -> "["
    [] OTHER -> "\""

QuoteClose(driver) ==
  CASE newBuilder(driver) \in {"mysql", "sqlite"} -> Backtick
    [] newBuilder(driver) = "mssql" -> "]"
    [] OTHER -> "\""

\* strings.Contains(s, c) for a one-character c.
ContainsChar(s, c) == \E i \in 1..Len(s) : s[i] = c

\* strings.Contains(s, <<c1, c2>>) for a two-character substring.
ContainsPair(s, c1, c2) == \E i \in 1..(Len(s) - 1) : s[i] = c1 /\ s[i + 1] = c2

\* strings.LastIndex(s, c): the last position of c in s, 0 if there is none
\* (positions are 1-based here, Go's -1 is 0).
LastIndexChar(s, c) ==
  IF ContainsChar(s, c)
  THEN CHOOSE i \in 1..Len(s) : s[i] = c /\ \A j \in (i + 1)..Len(s) : s[j] # c
  ELSE 0

\* strings.Split(s, c): the parts of s between occurrences of c.
RECURSIVE SplitChar(_, _)
SplitChar(s, c) ==
  IF ~ContainsChar(s, c) THEN <<s>>
  ELSE LET i == CHOOSE k \in 1..Len(s) : s[k] = c /\ \A j \in 1..(k - 1) : s[j] # c
       IN  <<SubSeq(s, 1, i - 1)>> \o SplitChar(SubSeq(s, i + 1, Len(s)), c)

\* Builder.QuoteSimpleTableName
QuoteSimpleTableName(driver, s) ==
  IF ContainsChar(s, QuoteOpen(driver)) THEN s
  ELSE <<QuoteOpen(driver)>> \o s \o <<QuoteClose(driver)>>

\* Builder.QuoteSimpleColumnName
QuoteSimpleColumnName(driver, s) ==
  IF ContainsChar(s, QuoteOpen(driver)) \/ s = <<"*">> THEN s
  ELSE <<QuoteOpen(driver)>> \o s \o <<QuoteClose(driver)>>

\* DB.QuoteTableName
QuoteTableName(driver, s) ==
  IF ContainsChar(s, "(") \/ ContainsPair(s, "{", "{") THEN s
  ELSE IF ~ContainsChar(s, ".") THEN QuoteSimpleTableName(driver, s)
  ELSE LET parts == SplitChar(s, ".")
       IN  JoinSeqs([i \in 1..Len(parts) |-> QuoteSimpleTableName(driver, parts[i])], <<".">>)

\* DB.QuoteColumnName
QuoteColumnName(driver, s) ==
  IF ContainsChar(s, "(") \/ ContainsPair(s, "{", "{") \/ ContainsPair(s, "[", "[") THEN s
  ELSE LET pos == LastIndexChar(s, ".")
       IN  IF pos # 0
           THEN QuoteTableName(driver, SubSeq(s, 1, pos - 1)) \o <<".">>
                  \o QuoteSimpleColumnName(driver, SubSeq(s, pos + 1, Len(s)))
           ELSE QuoteSimpleColumnName(driver, s)

(***************************************************************************)
(* DB.processSQL: the two regular expressions as scanners.                 *)
(***************************************************************************)

\* \w of Go's regexp, restricted to the word characters the model's
\* statements are written with.
WordChars ==
  { "a", "b", "c", "d", "e", "i", "n", "p", "s", "t", "u", "x", "_",
    "0", "1", "2", "3", "4", "5", "6", "7", "8", "9" }

\* [\w\-\. ] of quoteRegex.
QuoteClassChars == WordChars \cup {"-", ".", " "}

\* The first position at or after i whose character is not in class
\* (Len(s) + 1 if the run reaches the end): the greedy match of class*.
RECURSIVE RunEnd(_, _, _)
RunEnd(s, i, class) ==
  IF i > Len(s) \/ s[i] \notin class THEN i ELSE RunEnd(s, i + 1, class)

\* plRegex \{:\w+\} anchored at i: the position of the closing brace of the
\* match, 0 if there is no match at i.
PlMatchEnd(s, i) ==
  IF i + 1 <= Len(s) /\ s[i] = "{" /\ s[i + 1] = ":"
  THEN LET j == RunEnd(s, i + 2, WordChars)
       IN  IF j > i + 2 /\ j <= Len(s) /\ s[j] = "}" THEN j ELSE 0
  ELSE 0

\* The least position of set ks.
MinPos(ks) == CHOOSE k \in ks : \A j \in ks : k <= j

\* The first ReplaceAllStringFunc of processSQL from position i on, count
\* placeholders having been replaced so far: the text up to the next match
\* is kept, the match is replaced.
RECURSIVE PlScan(_, _, _, _)
PlScan(driver, s, i, count) ==
  LET ks == {k \in i..Len(s) : PlMatchEnd(s, k) # 0}
  IN  IF ks = {} THEN [sql |-> SubSeq(s, i, Len(s)), placeholders |-> <<>>]
      ELSE LET k == MinPos(ks)
               e == PlMatchEnd(s, k)
               r == PlScan(driver, s, e + 1, count + 1)
           IN  [sql |-> SubSeq(s, i, k - 1) \o GeneratePlaceholder(driver, count + 1) \o r.sql,
                placeholders |-> <<Str(SubSeq(s, k + 2, e - 1))>> \o r.placeholders]

\* quoteRegex (\{\{[\w\-\. ]+\}\}|\[\[[\w\-\. ]+\]\]) anchored at i: the
\* position of the last character of the match, 0 if there is none.
QuoteMatchEnd(s, i) ==
  IF i + 1 <= Len(s) /\ ((s[i] = "{" /\ s[i + 1] = "{") \/ (s[i] = "[" /\ s[i + 1] = "["))
  THEN LET close == IF s[i] = "{" THEN "}" ELSE "]"
           j == RunEnd(s, i + 2, QuoteClassChars)
       IN  IF j > i + 2 /\ j + 1 <= Len(s) /\ s[j] = close /\ s[j + 1] = close
           THEN j + 1 ELSE 0
  ELSE 0

\* The second ReplaceAllStringFunc of processSQL from position i on.
RECURSIVE QuoteScan(_, _, _)
QuoteScan(driver, s, i) ==
  LET ks == {k \in i..Len(s) : QuoteMatchEnd(s, k) # 0}
  IN  IF ks = {} THEN SubSeq(s, i, Len(s))
      ELSE LET k == MinPos(ks)
               e == QuoteMatchEnd(s, k)
               inner == SubSeq(s, k + 2, e - 2)
           IN  SubSeq(s, i, k - 1)
                 \o (IF s[k] = "{" THEN QuoteTableName(driver, inner)
                                   ELSE QuoteColumnName(driver, inner))
                 \o QuoteScan(driver, s, e + 1)

\* DB.processSQL
processSQL(driver, s) ==
  LET pl == PlScan(driver, s, 1, 0)
  IN  [sql |-> QuoteScan(driver, pl.sql, 1), placeholders |-> pl.placeholders]

(***************************************************************************)
(* The Query facade (query.go)                                             *)
(***************************************************************************)

\* Most Bind calls one query receives.
MaxBinds == 2

\* Most parts a template is written from.
MaxSegs == 2

\* The parts templates are written from: two placeholders, plain text, a
\* brace group that is no placeholder, a table marker and a column marker.
Segments ==
  { <<"{", ":", "a", "}">>,
    <<"{", ":", "b", "}">>,
    <<"x", "=">>,
    <<"{", ":", "a", "?", "}">>,
    <<"{", "{", "t", ".", "u", "}", "}">>,
    <<"[", "[", "t", ".", "c", "]", "]">> }

\* The templates of the preprocessor's specification, as their parts.
Templates == UNION {[1..n -> Segments] : n \in 0..MaxSegs}

\* The templates of the facade's specification.
QueryTemplates ==
  { <<>>,
    << <<"x", "=">>, <<"{", ":", "a", "}">> >>,
    << <<"{", ":", "a", "}">>, <<"{", ":", "b", "}">> >>,
    << <<"{", ":", "b", "}">>, <<"{", ":", "a", "}">>, <<"{", ":", "b", "}">> >> }

\* The SQL text written from parts.
RECURSIVE Flat(_)
Flat(parts) == IF parts = <<>> THEN <<>> ELSE parts[1] \o Flat(Tail(parts))

\* The Params maps callers bind.
ParamChoices ==
  { EmptyParams,
    [n \in {"a"} |-> IntV(1)],
    [n \in {"b"} |-> IntV(1)],
    [n \in {"a", "b"} |-> IntV(2)] }

NoQuery == [kind |-> "none"]
NoCall == [fn |-> "none"]
NoError == [kind |-> "nil"]
\* errors.New("Named parameter not found: " + name)
MissingParamError(name) == [kind |-> "missing", name |-> name]
\* An error of the Executor (the database).
ExecutorError == [kind |-> "executor"]

\* A mutant: a placeholder without a value is skipped.
replacePlaceholdersSkipMissing(placeholders, params) ==
  LET bound == SelectSeq(placeholders, LAMBDA n : n \in DOMAIN params)
  IN  [values |-> [i \in 1..Len(bound) |-> params[bound[i]]], err |-> NoError]

\* replacePlaceholders, from position i on.
RECURSIVE replaceFrom(_, _, _)
replaceFrom(placeholders, params, i) ==
  IF i > Len(placeholders) THEN [values |-> <<>>, err |-> NoError]
  ELSE IF placeholders[i] \in DOMAIN params
       THEN LET r == replaceFrom(placeholders, params, i + 1)
            IN  IF r.err # NoError THEN r
                ELSE [values |-> <<params[placeholders[i]]>> \o r.values, err |-> NoError]
       ELSE [values |-> <<>>, err |-> MissingParamError(placeholders[i])]

\* replacePlaceholders
replacePlaceholders(placeholders, params) ==
  IF Len(placeholders) = 0 THEN [values |-> <<>>, err |-> NoError]
  ELSE replaceFrom(placeholders, params, 1)

\* DB construction (NewFromDB): the driver name is fixed.
Open(driver) ==
  /\ driverName = ""
  /\ driverName' = driver
  /\ UNCHANGED nonDBVars

\* NewQuery(db, executor, sql), sql written from parts.
NewQuery(parts) ==
  /\ driverName # ""
  /\ query = NoQuery
  /\ LET r == processSQL(driverName, Flat(parts))
     IN  query' = [sql |-> Flat(parts), rawSQL |-> r.sql, placeholders |-> r.placeholders,
                   params |-> 1, stmt |-> FALSE, LastError |-> NoError]
  /\ tpl' = parts
  /\ heap' = (1 :> EmptyParams)
  /\ ret' = [op |-> "NewQuery", err |-> NoError]
  /\ sent' = NoCall
  /\ UNCHANGED driverName
  /\ UNCHANGED nonQueryVars

\* Query.Bind(params): params is a map of the caller, held by reference.
\* The call is recorded with the arguments of the Bind calls before it.
Bind(params) ==
  /\ query # NoQuery
  /\ Cardinality(DOMAIN heap) <= MaxBinds
  /\ LET id == Cardinality(DOMAIN heap) + 1
         h == heap @@ (id :> params)
     IN  IF ParamsLen(heap[query.params]) = 0
         THEN /\ query' = [query EXCEPT !.params = id]
              /\ heap' = h
         ELSE /\ query' = query
              /\ heap' = [h EXCEPT ![query.params] = ParamsMerge(heap[query.params], params)]
  /\ ret' = [op |-> "Bind", err |-> NoError]
  /\ sent' = NoCall
  /\ bcall' = [fn |-> "Bind",
               args |-> [binds |-> Append(IF bcall.fn = "Bind" THEN bcall.args.binds ELSE <<>>,
                                          params)]]
  /\ UNCHANGED <<driverName, tpl, mq>>
  /\ UNCHANGED nonModelVars

\* A mutant: the error the Query carries does not stop the execution.
RunDespiteLastError(op, fn, outcome) ==
  /\ query # NoQuery
  /\ LET r == replacePlaceholders(query.placeholders, heap[query.params])
     IN  IF r.err # NoError
         THEN /\ query' = [query EXCEPT !.LastError = r.err]
              /\ ret' = [op |-> op, err |-> r.err]
              /\ sent' = NoCall
         ELSE /\ sent' = [fn |-> IF query.stmt THEN "stmt." \o fn ELSE fn,
                          sql |-> query.rawSQL, args |-> r.values]
              /\ query' = [query EXCEPT !.LastError = outcome]
              /\ ret' = [op |-> op, err |-> outcome]
  /\ UNCHANGED <<driverName, tpl, heap>>
  /\ UNCHANGED nonQueryVars

\* Query.Execute and Query.Rows: fn is the Executor method ("Exec" or
\* "Query"), outcome the error the Executor returns if it is called.
Run(op, fn, outcome) ==
  /\ query # NoQuery
  /\ IF query.LastError # NoError
     THEN /\ ret' = [op |-> op, err |-> query.LastError]
          /\ sent' = NoCall
          /\ query' = query
     ELSE LET r == replacePlaceholders(query.placeholders, heap[query.params])
          IN  IF r.err # NoError
              THEN /\ query' = [query EXCEPT !.LastError = r.err]
                   /\ ret' = [op |-> op, err |-> r.err]
                   /\ sent' = NoCall
              ELSE /\ sent' = [fn |-> IF query.stmt THEN "stmt." \o fn ELSE fn,
                               sql |-> query.rawSQL, args |-> r.values]
                   /\ query' = [query EXCEPT !.LastError = outcome]
                   /\ ret' = [op |-> op, err |-> outcome]
  /\ UNCHANGED <<driverName, tpl, heap>>
  /\ UNCHANGED nonQueryVars

\* Query.Execute
Execute(outcome) == Run("Execute", "Exec", outcome)

\* Query.Rows
Rows(outcome) == Run("Rows", "Query", outcome)

\* Query.Prepare
Prepare(outcome) ==
  /\ query # NoQuery
  /\ sent' = [fn |-> "Prepare", sql |-> query.rawSQL, args |-> <<>>]
  /\ IF outcome # NoError
     THEN query' = [query EXCEPT !.LastError = outcome]
     ELSE query' = [query EXCEPT !.stmt = TRUE]
  /\ ret' = [op |-> "Prepare", err |-> NoError]
  /\ UNCHANGED <<driverName, tpl, heap>>
  /\ UNCHANGED nonQueryVars

\* Query.Close
Close ==
  /\ query # NoQuery
  /\ IF ~query.stmt
     THEN /\ sent' = NoCall
          /\ query' = query
     ELSE /\ sent' = [fn |-> "stmt.Close", sql |-> <<>>, args |-> <<>>]
          /\ query' = [query EXCEPT !.stmt = FALSE]
  /\ ret' = [op |-> "Close", err |-> NoError]
  /\ UNCHANGED <<driverName, tpl, heap>>
  /\ UNCHANGED nonQueryVars

Outcomes == {NoError, ExecutorError}

(***************************************************************************)
(* The expression algebra (expression.go).  An expression is a record      *)
(* tagged with its Go type; a column name is a sequence of characters, a   *)
(* rendered fragment is a string.  Build returns the fragment together     *)
(* with the Params map as the call leaves it.                              *)
(***************************************************************************)

\* NewExp(e, params)
NewExp(e, params) == [t |-> "Exp", e |-> e, params |-> params]

\* HashExp{...}: m maps column names to values
HashExp(m) == [t |-> "Hash", m |-> m]

\* Not(e)
Not(e) == [t |-> "Not", e |-> e]

\* And(exps...)
And(exps) == [t |-> "AndOr", exps |-> exps, op |-> "AND"]

\* Or(exps...)
Or(exps) == [t |-> "AndOr", exps |-> exps, op |-> "OR"]

\* In(col, values...)
In(col, values) == [t |-> "In", col |-> col, values |-> values, not |-> FALSE]

\* NotIn(col, values...)
NotIn(col, values) == [t |-> "In", col |-> col, values |-> values, not |-> TRUE]

\* Exists(exp)
Exists(exp) == [t |-> "Exists", exp |-> exp, not |-> FALSE]

\* NotExists(exp)
NotExists(exp) == [t |-> "Exists", exp |-> exp, not |-> TRUE]

\* Between(col, from, to)
Between(col, from, to) ==
  [t |-> "Between", col |-> col, from |-> from, to |-> to, not |-> FALSE]

\* NotBetween(col, from, to)
NotBetween(col, from, to) ==
  [t |-> "Between", col |-> col, from |-> from, to |-> to, not |-> TRUE]

\* The type switch's "case Expression".
IsExpression(v) == v.t \in {"Exp", "Hash", "Not", "AndOr", "In", "Exists", "Between"}

\* strings.Join over a sequence of strings.
RECURSIVE JoinStr(_, _)
JoinStr(parts, sep) ==
  IF parts = <<>> THEN ""
  ELSE IF Len(parts) = 1 THEN parts[1]
  ELSE parts[1] \o sep \o JoinStr(Tail(parts), sep)

\* The byte values of the characters column names are written with.
ByteOf ==
  ("." :> 46) @@ ("B" :> 66) @@ ("a" :> 97) @@ ("b" :> 98) @@ ("d" :> 100) @@ ("i" :> 105)
    @@ ("n" :> 110) @@ ("p" :> 112) @@ ("t" :> 116)

\* Go's a < b on strings: bytewise lexicographic order.
RECURSIVE StrLess(_, _)
StrLess(a, b) ==
  IF b = <<>> THEN FALSE
  ELSE IF a = <<>> THEN TRUE
  ELSE IF a[1] = b[1] THEN StrLess(Tail(a), Tail(b))
  ELSE ByteOf[a[1]] < ByteOf[b[1]]

\* Insertion of x into an ascending sequence.
RECURSIVE SortInsert(_, _)
SortInsert(sorted, x) ==
  IF sorted = <<>> THEN <<x>>
  ELSE IF StrLess(x, sorted[1]) THEN <<x>> \o sorted
  ELSE <<sorted[1]>> \o SortInsert(Tail(sorted), x)

\* A mutant: the names are left in iteration order.
SortStringsNone(names) == names

\* sort.Strings(names)
RECURSIVE SortStrings(_)
SortStrings(names) ==
  IF names = <<>> THEN <<>>
  ELSE SortInsert(SortStrings(Tail(names)), names[1])

\* for name := range e: the keys of map m in the order the runtime happens
\* to iterate, which is the order they have in it.
MapKeys(m, it) == SelectSeq(it, LAMBDA c : c \in DOMAIN m)

\* fmt.Sprintf("p%v", n)
ParamName(n) == "p" \o Str(Digits(n))

\* db.QuoteColumnName(col) as a string
QuoteCol(db, col) == Str(QuoteColumnName(db, col))

\* db.QuoteTableName(table) as a string
QuoteTable(db, table) == Str(QuoteTableName(db, table))

RECURSIVE Build(_, _, _, _)

\* Exp.Build
ExpBuild(db, e, params, it) ==
  IF ParamsLen(e.params) = 0 THEN [sql |-> e.e, params |-> params]
  ELSE [sql |-> e.e, params |-> ParamsMerge(params, e.params)]

\* The loop of InExp.Build over e.values.
RECURSIVE InLoop(_, _, _, _, _)
InLoop(db, vals, values, params, it) ==
  IF vals = <<>> THEN [values |-> values, params |-> params]
  ELSE LET value == vals[1]
       IN  CASE value.t = "nil" ->
                  InLoop(db, Tail(vals), Append(values, "NULL"), params, it)
             [] IsExpression(value) ->
                  LET r == Build(db, value, params, it)
                  IN  InLoop(db, Tail(vals), Append(values, r.sql), r.params, it)
             [] OTHER ->
                  LET name == ParamName(ParamsLen(params))
                  IN  InLoop(db, Tail(vals), Append(values, "{:" \o name \o "}"),
                             ParamsSet(params, name, value), it)

\* A mutant: an empty NOT IN renders the always-false condition too.
InExpBuildEmptyFalse(db, e, params, it) ==
  IF Len(e.values) = 0
  THEN [sql |-> "0=1", params |-> params]
  ELSE LET r == InLoop(db, e.values, <<>>, params, it)
           col == QuoteCol(db, e.col)
       IN  IF Len(r.values) = 1
           THEN [sql |-> col \o (IF e.not THEN "<>" ELSE "=") \o r.values[1],
                 params |-> r.params]
           ELSE [sql |-> col \o " " \o (IF e.not THEN "NOT IN" ELSE "IN") \o " ("
                           \o JoinStr(r.values, ", ") \o ")",
                 params |-> r.params]

\* InExp.Build
InExpBuild(db, e, params, it) ==
  IF Len(e.values) = 0
  THEN [sql |-> IF e.not THEN "" ELSE "0=1", params |-> params]
  ELSE LET r == InLoop(db, e.values, <<>>, params, it)
           col == QuoteCol(db, e.col)
       IN  IF Len(r.values) = 1
           THEN [sql |-> col \o (IF e.not THEN "<>" ELSE "=") \o r.values[1],
                 params |-> r.params]
           ELSE [sql |-> col \o " " \o (IF e.not THEN "NOT IN" ELSE "IN") \o " ("
                           \o JoinStr(r.values, ", ") \o ")",
                 params |-> r.params]

\* The loop of HashExp.Build over the sorted names.
RECURSIVE HashLoop(_, _, _, _, _, _)
HashLoop(db, e, names, parts, params, it) ==
  IF names = <<>> THEN [parts |-> parts, params |-> params]
  ELSE LET name == names[1]
           value == e.m[name]
       IN  CASE value.t = "nil" ->
                  HashLoop(db, e, Tail(names),
                           Append(parts, QuoteCol(db, name) \o " IS NULL"), params, it)
             [] IsExpression(value) ->
                  LET r == Build(db, value, params, it)
                  IN  HashLoop(db, e, Tail(names),
                               IF r.sql # "" THEN Append(parts, "(" \o r.sql \o ")") ELSE parts,
                               r.params, it)
             [] value.t = "list" ->
                  LET r == InExpBuild(db, In(name, value.items), params, it)
                  IN  HashLoop(db, e, Tail(names),
                               IF r.sql # "" THEN Append(parts, r.sql) ELSE parts,
                               r.params, it)
             [] OTHER ->
                  LET pn == ParamName(ParamsLen(params))
                  IN  HashLoop(db, e, Tail(names),
                               Append(parts, QuoteCol(db, name) \o "={:" \o pn \o "}"),
                               ParamsSet(params, pn, value), it)

\* HashExp.Build
HashExpBuild(db, e, params, it) ==
  IF Cardinality(DOMAIN e.m) = 0 THEN [sql |-> "", params |-> params]
  ELSE LET names == SortStrings(MapKeys(e.m, it))
           r == HashLoop(db, e, names, <<>>, params, it)
       IN  IF Len(r.parts) = 1 THEN [sql |-> r.parts[1], params |-> r.params]
           ELSE [sql |-> JoinStr(r.parts, " AND "), params |-> r.params]

\* NotExp.Build
NotExpBuild(db, e, params, it) ==
  LET r == Build(db, e.e, params, it)
  IN  IF r.sql # "" THEN [sql |-> "NOT (" \o r.sql \o ")", params |-> r.params]
      ELSE [sql |-> "", params |-> r.params]

\* The loop of AndOrExp.Build over e.exps.
RECURSIVE AndOrLoop(_, _, _, _, _)
AndOrLoop(db, exps, parts, params, it) ==
  IF exps = <<>> THEN [parts |-> parts, params |-> params]
  ELSE LET a == exps[1]
       IN  IF a = NilV THEN AndOrLoop(db, Tail(exps), parts, params, it)
           ELSE LET r == Build(db, a, params, it)
                IN  AndOrLoop(db, Tail(exps),
                              IF r.sql # "" THEN Append(parts, r.sql) ELSE parts,
                              r.params, it)

\* A mutant: a single surviving entry is parenthesised like any other.
AndOrExpBuildAlwaysWrap(db, e, params, it) ==
  IF Len(e.exps) = 0 THEN [sql |-> "", params |-> params]
  ELSE LET r == AndOrLoop(db, e.exps, <<>>, params, it)
       IN  [sql |-> "(" \o JoinStr(r.parts, ") " \o e.op \o " (") \o ")",
            params |-> r.params]

\* AndOrExp.Build
AndOrExpBuild(db, e, params, it) ==
  IF Len(e.exps) = 0 THEN [sql |-> "", params |-> params]
  ELSE LET r == AndOrLoop(db, e.exps, <<>>, params, it)
       IN  IF Len(r.parts) = 1 THEN [sql |-> r.parts[1], params |-> r.params]
           ELSE [sql |-> "(" \o JoinStr(r.parts, ") " \o e.op \o " (") \o ")",
                 params |-> r.params]

\* ExistsExp.Build
ExistsExpBuild(db, e, params, it) ==
  LET r == Build(db, e.exp, params, it)
  IN  IF r.sql = ""
      THEN [sql |-> IF e.not THEN "" ELSE "0=1", params |-> r.params]
      ELSE [sql |-> (IF e.not THEN "NOT EXISTS (" ELSE "EXISTS (") \o r.sql \o ")",
            params |-> r.params]

\* BetweenExp.Build
BetweenExpBuild(db, e, params, it) ==
  LET between == IF e.not THEN "NOT BETWEEN" ELSE "BETWEEN"
      name1 == ParamName(ParamsLen(params))
      name2 == ParamName(ParamsLen(params) + 1)
      params2 == ParamsSet(ParamsSet(params, name1, e.from), name2, e.to)
      col == QuoteCol(db, e.col)
  IN  [sql |-> col \o " " \o between \o " {:" \o name1 \o "} AND {:" \o name2 \o "}",
       params |-> params2]

\* Expression.Build: the dynamic dispatch on the expression's type.
Build(db, e, params, it) ==
  CASE e.t = "Exp" -> ExpBuild(db, e, params, it)
    [] e.t = "Hash" -> HashExpBuild(db, e, params, it)
    [] e.t = "Not" -> NotExpBuild(db, e, params, it)
    [] e.t = "AndOr" -> AndOrExpBuild(db, e, params, it)
    [] e.t = "In" -> InExpBuild(db, e, params, it)
    [] e.t = "Exists" -> ExistsExpBuild(db, e, params, it)
    [] e.t = "Between" -> BetweenExpBuild(db, e, params, it)

\* ---- the expressions and maps a caller builds

MaxList == 2

\* The keys of the HashExp maps.
HashCols == {<<"a">>, <<"a", "b">>, <<"B">>}

\* The orders in which the runtime may iterate a map over HashCols.
IterOrders ==
  {s \in [1..Cardinality(HashCols) -> HashCols] : \A i, j \in DOMAIN s : i # j => s[i] # s[j]}

\* The columns of IN and BETWEEN.
Cols == {<<"a">>, <<"t", ".", "b">>}

NoParamExp == NewExp("x=1", EmptyParams)

\* The values of a HashExp map.
HashValues ==
  { IntV(1), IntV(2), NilV, ListV(<<>>), ListV(<<IntV(1), IntV(2)>>),
    NoParamExp, NotIn(<<"a">>, <<>>) }

HashExps ==
  UNION { {HashExp(m) : m \in [S -> HashValues]} : S \in SUBSET HashCols }

\* The entries of an And/Or list: nil, fragments that render empty and
\* fragments that do not, with and without parameters, and a nested list.
ListEntries ==
  { NilV, NoParamExp, NotIn(<<"a">>, <<>>),
    HashExp([c \in {<<"a">>} |-> IntV(1)]),
    NewExp("y={:p1}", [n \in {"p1"} |-> IntV(7)]),
    Or(<<NoParamExp, HashExp([c \in {<<"B">>} |-> IntV(2)])>>) }

Lists == UNION {[1..n -> ListEntries] : n \in 0..MaxList}

AndOrExps == {And(l) : l \in Lists} \cup {Or(l) : l \in Lists}

\* The value lists of In and NotIn.
ValueLists ==
  { <<>>, <<IntV(1)>>, <<IntV(1), IntV(2)>>, <<NilV>>, <<NilV, IntV(1)>>,
    <<NewExp("SELECT 1", EmptyParams)>> }

InExps ==
  {In(c, l) : c \in Cols, l \in ValueLists} \cup {NotIn(c, l) : c \in Cols, l \in ValueLists}

BetweenExps ==
  {Between(c, IntV(1), IntV(2)) : c \in Cols} \cup {NotBetween(c, IntV(1), IntV(2)) : c \in Cols}

WrappedExps ==
  LET inner == {NoParamExp, NotIn(<<"a">>, <<>>), HashExp([c \in {<<"a">>} |-> IntV(1)])}
  IN  {Not(e) : e \in inner} \cup {Exists(e) : e \in inner} \cup {NotExists(e) : e \in inner}

Exps == HashExps \cup AndOrExps \cup InExps \cup BetweenExps \cup WrappedExps

\* The Params maps a caller passes to Build: empty, holding a name of the
\* caller's, holding names of the generated shape.
BuildParams ==
  { EmptyParams,
    [n \in {"x"} |-> IntV(9)],
    [n \in {"p1"} |-> IntV(9)],
    [n \in {"p0", "p1"} |-> IntV(8)] }

\* The caller constructs expression e and holds the Params map params.
Construct(e, params) ==
  /\ driverName # ""
  /\ bPhase = "none"
  /\ bExp' = e
  /\ bParams' = params
  /\ bPhase' = "held"
  /\ UNCHANGED <<bSql, driverName>>
  /\ UNCHANGED nonExpVars

\* e.Build(db, params); it is the order in which maps happen to iterate.
BuildExp(it) ==
  /\ bPhase = "held"
  /\ LET r == Build(driverName, bExp, bParams, it)
     IN  /\ bSql' = r.sql
         /\ bParams' = r.params
  /\ bPhase' = "built"
  /\ UNCHANGED <<bExp, driverName>>
  /\ UNCHANGED nonExpVars

(***************************************************************************)
(* SelectQuery and the clause builders (select.go, query_builder.go).      *)
(* The SelectQuery of the model keeps the column, join and group lists as  *)
(* NewSelectQuery sets them.                                               *)
(* Build is a pass over the clauses in the order of the code, all of them  *)
(* writing into one Params map.                                            *)
(***************************************************************************)

NoSelect == [kind |-> "none"]

IdlePass == [at |-> "idle"]

\* BaseQueryBuilder.BuildSelect for no columns, no DISTINCT, no option
BuildSelect == "SELECT *"

\* BaseQueryBuilder.BuildWhere
BuildWhere(db, e, params, it) ==
  IF e # NilV
  THEN LET r == Build(db, e, params, it)
       IN  [sql |-> IF r.sql # "" THEN "WHERE " \o r.sql ELSE "", params |-> r.params]
  ELSE [sql |-> "", params |-> params]

\* BaseQueryBuilder.BuildHaving
BuildHaving(db, e, params, it) ==
  IF e # NilV
  THEN LET r == Build(db, e, params, it)
       IN  [sql |-> IF r.sql # "" THEN "HAVING " \o r.sql ELSE "", params |-> r.params]
  ELSE [sql |-> "", params |-> params]

\* The loop of BaseQueryBuilder.BuildUnion from the i-th union on.
RECURSIVE UnionLoop(_, _, _, _)
UnionLoop(unions, i, sql, params) ==
  IF i > Len(unions) THEN [sql |-> sql, params |-> params]
  ELSE LET union == unions[i]
           u == IF union.All THEN "UNION ALL" ELSE "UNION"
       IN  UnionLoop(unions, i + 1,
                     (IF i > 1 THEN sql \o " " ELSE sql) \o u \o " (" \o union.Query.sql \o ")",
                     ParamsMerge(params, union.Query.params))

\* BaseQueryBuilder.BuildUnion
BuildUnion(unions, params) ==
  IF Len(unions) = 0 THEN [sql |-> "", params |-> params]
  ELSE UnionLoop(unions, 1, "", params)

\* SelectQuery.Build: the non-empty clauses joined by single spaces.
RECURSIVE JoinClauses(_, _)
JoinClauses(clauses, sql) ==
  IF clauses = <<>> THEN sql
  ELSE IF clauses[1] = "" THEN JoinClauses(Tail(clauses), sql)
  ELSE JoinClauses(Tail(clauses), IF sql = "" THEN clauses[1] ELSE sql \o " " \o clauses[1])

\* BaseQueryBuilder.BuildFrom for tables named without an alias
BuildFrom(db, tables) ==
  IF Len(tables) = 0 THEN ""
  ELSE "FROM " \o JoinStr([i \in 1..Len(tables) |-> QuoteTable(db, tables[i])], ", ")

\* orderRegex, \s+((?i)ASC|DESC)$: the length of the match in col, 0 if
\* there is none.  Columns are written with single spaces.
OrderMatch(col) ==
  LET n == Len(col)
      up(s) == [i \in 1..Len(s) |->
                  CASE s[i] = "a" -> "A" [] s[i] = "s" -> "S" [] s[i] = "c" -> "C"
                    [] s[i] = "d" -> "D" [] s[i] = "e" -> "E" [] OTHER -> s[i]]
  IN  IF n >= 4 /\ col[n - 3] = " " /\ up(SubSeq(col, n - 2, n)) = <<"A", "S", "C">> THEN 4
      ELSE IF n >= 5 /\ col[n - 4] = " " /\ up(SubSeq(col, n - 3, n)) = <<"D", "E", "S", "C">>
           THEN 5
           ELSE 0

\* BaseQueryBuilder.BuildOrderBy
BuildOrderBy(db, cols) ==
  IF Len(cols) = 0 THEN ""
  ELSE "ORDER BY " \o
       JoinStr([i \in 1..Len(cols) |->
                  LET k == OrderMatch(cols[i])
                  IN  IF k = 0 THEN QuoteCol(db, cols[i])
                      ELSE QuoteCol(db, SubSeq(cols[i], 1, Len(cols[i]) - k)) \o " "
                             \o Str(SubSeq(cols[i], Len(cols[i]) - k + 2, Len(cols[i])))],
               ", ")

\* fmt.Sprintf("%v", n) for n >= 0
Num(n) == Str(Digits(n))

\* BaseQueryBuilder.BuildLimit
BuildLimit(limit, offset) ==
  LET lim == IF limit < 0 /\ offset > 0 THEN "LIMIT 9223372036854775807"
             ELSE IF limit >= 0 THEN "LIMIT " \o Num(limit) ELSE ""
  IN  IF offset <= 0 THEN lim
      ELSE (IF lim # "" THEN lim \o " " ELSE lim) \o "OFFSET " \o Num(offset)

\* BaseQueryBuilder.BuildOrderByAndLimit
BaseBuildOrderByAndLimit(db, sql, cols, limit, offset) ==
  LET orderBy == BuildOrderBy(db, cols)
      ordered == IF orderBy # "" THEN sql \o " " \o orderBy ELSE sql
      lim == BuildLimit(limit, offset)
  IN  IF lim # "" THEN ordered \o " " \o lim ELSE ordered

\* A mutant: no ORDER BY is made up when none is given.
MssqlBuildOrderByAndLimitAsGiven(db, sql, cols, limit, offset) ==
  LET orderBy == BuildOrderBy(db, cols)
  IN  IF limit < 0 /\ offset < 0
      THEN (IF orderBy = "" THEN sql ELSE sql \o "\n" \o orderBy)
      ELSE (IF orderBy = "" THEN sql ELSE sql \o "\n" \o orderBy)
             \o "\n" \o "OFFSET " \o Num(IF offset < 0 THEN 0 ELSE offset) \o " ROWS"
             \o (IF limit >= 0 THEN "\n" \o "FETCH NEXT " \o Num(limit) \o " ROWS ONLY" ELSE "")

\* MssqlQueryBuilder.BuildOrderByAndLimit
MssqlBuildOrderByAndLimit(db, sql, cols, limit, offset) ==
  LET orderBy == BuildOrderBy(db, cols)
  IN  IF limit < 0 /\ offset < 0
      THEN (IF orderBy = "" THEN sql ELSE sql \o "\n" \o orderBy)
      ELSE sql \o "\n" \o (IF orderBy = "" THEN "ORDER BY (SELECT NULL)" ELSE orderBy)
             \o "\n" \o "OFFSET " \o Num(IF offset < 0 THEN 0 ELSE offset) \o " ROWS"
             \o (IF limit >= 0 THEN "\n" \o "FETCH NEXT " \o Num(limit) \o " ROWS ONLY" ELSE "")

\* OciQueryBuilder.BuildOrderByAndLimit
OciBuildOrderByAndLimit(db, sql, cols, limit, offset) ==
  LET orderBy == BuildOrderBy(db, cols)
      inner == IF orderBy # "" THEN sql \o "\n" \o orderBy ELSE sql
      off == IF offset > 0 THEN "rowNumId > " \o Num(offset) ELSE ""
      c == IF limit >= 0
           THEN (IF off # "" THEN off \o " AND " ELSE off) \o "rowNum <= " \o Num(limit)
           ELSE off
  IN  IF c = "" THEN inner
      ELSE "WITH USER_SQL AS (" \o inner \o "),\n\tPAGINATION AS (SELECT USER_SQL.*, rownum as rowNumId FROM USER_SQL)\nSELECT * FROM PAGINATION WHERE " \o c

\* qb.BuildOrderByAndLimit of the driver's query builder
BuildOrderByAndLimit(db, sql, cols, limit, offset) ==
  CASE newBuilder(db) = "mssql" -> MssqlBuildOrderByAndLimit(db, sql, cols, limit, offset)
    [] newBuilder(db) = "oci" -> OciBuildOrderByAndLimit(db, sql, cols, limit, offset)
    [] OTHER -> BaseBuildOrderByAndLimit(db, sql, cols, limit, offset)

MaxBuilds == 2
MaxUnions == 1

\* The conditions and the parameters the callers of the model use.
WhereExps ==
  { HashExp([c \in {<<"a">>} |-> IntV(1)]), HashExp([c \in {<<"a">>} |-> IntV(2)]) }

HavingExps == { HashExp([c \in {<<"B">>} |-> NilV]) }

SelectParams == { [n \in {"x"} |-> IntV(7)] }

\* NewSelectQuery
NewSelectQuery ==
  /\ driverName # ""
  /\ pass = IdlePass
  /\ sel' = [where |-> NilV, having |-> NilV, union |-> <<>>, params |-> EmptyParams,
             from |-> <<>>, orderBy |-> <<>>, limit |-> -1, offset |-> 0]
  /\ UNCHANGED <<pass, lastQuery, builds, driverName>>
  /\ UNCHANGED nonSelectVars

\* SelectQuery.From(tables...)
From(tables) ==
  /\ sel # NoSelect
  /\ pass = IdlePass
  /\ sel' = [sel EXCEPT !.from = tables]
  /\ UNCHANGED <<pass, lastQuery, builds, driverName>>
  /\ UNCHANGED nonSelectVars

\* SelectQuery.OrderBy(cols...)
OrderBy(cols) ==
  /\ sel # NoSelect
  /\ pass = IdlePass
  /\ sel' = [sel EXCEPT !.orderBy = cols]
  /\ UNCHANGED <<pass, lastQuery, builds, driverName>>
  /\ UNCHANGED nonSelectVars

\* SelectQuery.Limit(limit)
Limit(limit) ==
  /\ sel # NoSelect
  /\ pass = IdlePass
  /\ sel' = [sel EXCEPT !.limit = limit]
  /\ UNCHANGED <<pass, lastQuery, builds, driverName>>
  /\ UNCHANGED nonSelectVars

\* SelectQuery.Offset(offset)
Offset(offset) ==
  /\ sel # NoSelect
  /\ pass = IdlePass
  /\ sel' = [sel EXCEPT !.offset = offset]
  /\ UNCHANGED <<pass, lastQuery, builds, driverName>>
  /\ UNCHANGED nonSelectVars

\* SelectQuery.Where(e)
Where(e) ==
  /\ sel # NoSelect
  /\ pass = IdlePass
  /\ sel' = [sel EXCEPT !.where = e]
  /\ UNCHANGED <<pass, lastQuery, builds, driverName>>
  /\ UNCHANGED nonSelectVars

\* SelectQuery.Having(e)
Having(e) ==
  /\ sel # NoSelect
  /\ pass = IdlePass
  /\ sel' = [sel EXCEPT !.having = e]
  /\ UNCHANGED <<pass, lastQuery, builds, driverName>>
  /\ UNCHANGED nonSelectVars

\* SelectQuery.Union(q) and SelectQuery.UnionAll(q): the caller hands over
\* the query the last Build returned and keeps no reference to it.
Union(all) ==
  /\ sel # NoSelect
  /\ pass = IdlePass
  /\ lastQuery # NoQuery
  /\ Len(sel.union) < MaxUnions
  /\ sel' = [sel EXCEPT !.union = Append(@, [All |-> all, Query |-> lastQuery])]
  /\ lastQuery' = NoQuery
  /\ UNCHANGED <<pass, builds, driverName>>
  /\ UNCHANGED nonSelectVars

\* SelectQuery.Bind(params)
SelectBind(params) ==
  /\ sel # NoSelect
  /\ pass = IdlePass
  /\ sel' = [sel EXCEPT !.params = params]
  /\ UNCHANGED <<pass, lastQuery, builds, driverName>>
  /\ UNCHANGED nonSelectVars

\* SelectQuery.Build, lines 523-533: the parameters are copied, the SELECT,
\* FROM and JOIN clauses are built (the last from an empty list).
BuildBegin ==
  /\ sel # NoSelect
  /\ pass = IdlePass
  /\ builds < MaxBuilds
  /\ pass' = [at |-> "where", params |-> ParamsMerge(EmptyParams, sel.params),
              clauses |-> <<BuildSelect, BuildFrom(driverName, sel.from), "">>, sql |-> ""]
  /\ UNCHANGED <<sel, lastQuery, builds, driverName>>
  /\ UNCHANGED nonSelectVars

\* SelectQuery.Build, line 534: the WHERE clause.
BuildWhereStep(it) ==
  /\ pass.at = "where"
  /\ LET r == BuildWhere(driverName, sel.where, pass.params, it)
     IN  pass' = [pass EXCEPT !.at = "having", !.params = r.params,
                              !.clauses = Append(@, r.sql)]
  /\ UNCHANGED <<sel, lastQuery, builds, driverName>>
  /\ UNCHANGED nonSelectVars

\* SelectQuery.Build, lines 535-548: GROUP BY (of no columns), HAVING, the
\* clauses joined, ORDER BY and LIMIT.
BuildHavingStep(it) ==
  /\ pass.at = "having"
  /\ LET r == BuildHaving(driverName, sel.having, pass.params, it)
     IN  pass' = [pass EXCEPT !.at = "union", !.params = r.params,
                              !.clauses = pass.clauses \o <<"", r.sql>>,
                              !.sql = BuildOrderByAndLimit(
                                        driverName, JoinClauses(pass.clauses \o <<"", r.sql>>, ""),
                                        sel.orderBy, sel.limit, sel.offset)]
  /\ UNCHANGED <<sel, lastQuery, builds, driverName>>
  /\ UNCHANGED nonSelectVars

\* SelectQuery.Build, lines 549-551: the UNION clauses.
BuildUnionStep ==
  /\ pass.at = "union"
  /\ LET r == BuildUnion(sel.union, pass.params)
     IN  pass' = [pass EXCEPT !.at = "query", !.params = r.params,
                              !.sql = IF r.sql # "" THEN "(" \o pass.sql \o ") " \o r.sql
                                      ELSE pass.sql]
  /\ UNCHANGED <<sel, lastQuery, builds, driverName>>
  /\ UNCHANGED nonSelectVars

\* SelectQuery.Build, line 553: NewQuery(sql).Bind(params).
BuildEnd ==
  /\ pass.at = "query"
  /\ lastQuery' = [sql |-> pass.sql, params |-> pass.params]
  /\ pass' = IdlePass
  /\ builds' = builds + 1
  /\ UNCHANGED <<sel, driverName>>
  /\ UNCHANGED nonSelectVars

(***************************************************************************)
(* DB.Transactional and DB.TransactionalContext (db.go).  The callback is  *)
(* the caller's code: it runs statements, may commit or roll back the      *)
(* transaction itself, and ends by returning nil, returning an error or    *)
(* panicking.  tx.own lists the calls the wrapper itself makes on the      *)
(* transaction.                                                            *)
(***************************************************************************)

MaxStmts == 2

NoTx ==
  [pc |-> "idle", variant |-> "", state |-> "none", stmts |-> 0, outcome |-> "none",
   own |-> <<>>, res |-> "none", ret |-> [kind |-> "none"]]

\* sql.Tx.Commit and sql.Tx.Rollback: on a transaction that is already
\* finished they return sql.ErrTxDone; otherwise the driver's result.
TxResults(state) == IF state = "open" THEN {"nil", "driver error"} ELSE {"ErrTxDone"}

\* db.Begin() (Transactional) or db.BeginTx(ctx, opts) (TransactionalContext);
\* ok tells whether the driver starts the transaction.
TransactionalBegin(variant, ok) ==
  /\ driverName # ""
  /\ tx.pc \in {"idle", "left"}
  /\ IF ok
     THEN tx' = [NoTx EXCEPT !.pc = "callback", !.variant = variant, !.state = "open"]
     ELSE tx' = [NoTx EXCEPT !.pc = "left", !.variant = variant,
                             !.ret = [kind |-> "return", err |-> <<"begin">>]]
  /\ UNCHANGED driverName
  /\ UNCHANGED nonTxVars

\* The callback runs a statement on the transaction.
CallbackExec ==
  /\ tx.pc = "callback"
  /\ tx.stmts < MaxStmts
  /\ tx' = [tx EXCEPT !.stmts = @ + 1]
  /\ UNCHANGED driverName
  /\ UNCHANGED nonTxVars

\* The callback itself calls tx.Commit() or tx.Rollback().
CallbackFinish(call) ==
  /\ tx.pc = "callback"
  /\ tx.state = "open"
  /\ tx' = [tx EXCEPT !.state = IF call = "Commit" THEN "committed" ELSE "rolledback"]
  /\ UNCHANGED driverName
  /\ UNCHANGED nonTxVars

\* The context of TransactionalContext is cancelled while the callback
\* runs: database/sql rolls the transaction back.
ContextCancel ==
  /\ tx.pc = "callback"
  /\ tx.variant = "TransactionalContext"
  /\ tx.state = "open"
  /\ tx' = [tx EXCEPT !.state = "rolledback"]
  /\ UNCHANGED driverName
  /\ UNCHANGED nonTxVars

\* err = f(tx): the callback returns nil ("nil"), returns an error ("err")
\* or panics ("panic").
CallbackEnd(outcome) ==
  /\ tx.pc = "callback"
  /\ tx' = [tx EXCEPT !.pc = "deferred", !.outcome = outcome]
  /\ UNCHANGED driverName
  /\ UNCHANGED nonTxVars

\* A mutant: a panic is re-raised without rolling back.
DeferredNoRollbackOnPanic(t, res) ==
  IF t.outcome = "panic"
  THEN [t EXCEPT !.pc = "left", !.ret = [kind |-> "panic"]]
  ELSE IF t.outcome = "err"
  THEN [t EXCEPT !.pc = "left", !.own = Append(@, "Rollback"), !.res = res,
                 !.state = IF @ = "open" THEN "rolledback" ELSE @,
                 !.ret = [kind |-> "return",
                          err |-> IF res \in {"nil", "ErrTxDone"} THEN <<"callback">>
                                  ELSE <<"callback", res>>]]
  ELSE [t EXCEPT !.pc = "left", !.own = Append(@, "Commit"), !.res = res,
                 !.state = IF @ = "open" THEN (IF res = "nil" THEN "committed" ELSE "aborted") ELSE @,
                 !.ret = [kind |-> "return",
                          err |-> IF res \in {"nil", "ErrTxDone"} THEN <<>> ELSE <<res>>]]

\* A mutant: sql.ErrTxDone from the rollback is reported like any error.
DeferredSurfacesTxDone(t, res) ==
  IF t.outcome = "panic"
  THEN [t EXCEPT !.pc = "left", !.own = Append(@, "Rollback"), !.res = res,
                 !.state = IF @ = "open" THEN "rolledback" ELSE @,
                 !.ret = [kind |-> "panic"]]
  ELSE IF t.outcome = "err"
  THEN [t EXCEPT !.pc = "left", !.own = Append(@, "Rollback"), !.res = res,
                 !.state = IF @ = "open" THEN "rolledback" ELSE @,
                 !.ret = [kind |-> "return",
                          err |-> IF res = "nil" THEN <<"callback">>
                                  ELSE <<"callback", res>>]]
  ELSE [t EXCEPT !.pc = "left", !.own = Append(@, "Commit"), !.res = res,
                 !.state = IF @ = "open" THEN (IF res = "nil" THEN "committed" ELSE "aborted") ELSE @,
                 !.ret = [kind |-> "return",
                          err |-> IF res \in {"nil", "ErrTxDone"} THEN <<>> ELSE <<res>>]]

\* The deferred function of Transactional / TransactionalContext, res being
\* the result of the call it makes on the transaction (kept in field res).
Deferred(t, res) ==
  IF t.outcome = "panic"
  THEN [t EXCEPT !.pc = "left", !.own = Append(@, "Rollback"), !.res = res,
                 !.state = IF @ = "open" THEN "rolledback" ELSE @,
                 !.ret = [kind |-> "panic"]]
  ELSE IF t.outcome = "err"
  THEN [t EXCEPT !.pc = "left", !.own = Append(@, "Rollback"), !.res = res,
                 !.state = IF @ = "open" THEN "rolledback" ELSE @,
                 !.ret = [kind |-> "return",
                          err |-> IF res \in {"nil", "ErrTxDone"} THEN <<"callback">>
                                  ELSE <<"callback", res>>]]
  ELSE [t EXCEPT !.pc = "left", !.own = Append(@, "Commit"), !.res = res,
                 !.state = IF @ = "open" THEN (IF res = "nil" THEN "committed" ELSE "aborted") ELSE @,
                 !.ret = [kind |-> "return",
                          err |-> IF res \in {"nil", "ErrTxDone"} THEN <<>> ELSE <<res>>]]

\* The deferred function runs and control leaves Transactional.
TransactionalEnd(res) ==
  /\ tx.pc = "deferred"
  /\ res \in TxResults(tx.state)
  /\ tx' = Deferred(tx, res)
  /\ UNCHANGED driverName
  /\ UNCHANGED nonTxVars

(***************************************************************************)
(* The struct-to-column mapping (struct.go).  A struct type is a record    *)
(* with the sequence of its fields; a field has a name, a db tag, the      *)
(* Anonymous flag and a type.  Names and tags are sequences of characters. *)
(* Pointer types are modelled by the types they point to.                  *)
(***************************************************************************)

\* Field types: a plain value, a struct that implements sql.Scanner (or
\* time.Time), a struct with fields.
ScalarType == [kind |-> "scalar"]
ScannerType == [kind |-> "scanner"]
StructType(fields) == [kind |-> "struct", fields |-> fields]

\* reflect.StructField
Field(name, tag, type) == [Name |-> name, Tag |-> tag, Anonymous |-> FALSE, Type |-> type]

\* reflect.StructField of an embedded type
Embedded(name, tag, type) == [Name |-> name, Tag |-> tag, Anonymous |-> TRUE, Type |-> type]

UpperChars == {"D", "E", "I", "N", "P", "X"}

\* strings.ToLower on one character
ToLowerChar(c) ==
  CASE c = "D" -> "d" [] c = "E" -> "e" [] c = "I" -> "i" [] c = "N" -> "n"
    [] c = "P" -> "p" [] c = "X" -> "x" [] OTHER -> c

\* fieldRegex.ReplaceAllString(f, "${1}_$2"): an underscore between a
\* character that is neither upper-case nor "_" and the upper-case
\* character after it, matches taken from left to right.
RECURSIVE FieldRegexReplace(_, _)
FieldRegexReplace(f, i) ==
  IF i > Len(f) THEN <<>>
  ELSE IF i < Len(f) /\ f[i] \notin UpperChars \cup {"_"} /\ f[i + 1] \in UpperChars
       THEN <<f[i], "_", f[i + 1]>> \o FieldRegexReplace(f, i + 2)
       ELSE <<f[i]>> \o FieldRegexReplace(f, i + 1)

\* DefaultFieldMapFunc
DefaultFieldMapFunc(f) ==
  LET r == FieldRegexReplace(f, 1)
  IN  [i \in 1..Len(r) |-> ToLowerChar(r[i])]

\* field.PkgPath != "": the field is not exported
Unexported(field) == field.Name[1] \notin UpperChars

\* isNestedStruct
isNestedStruct(t) == t.kind = "struct"

\* parseTag
parseTag(tag) ==
  IF tag = <<"p", "k">> THEN [dbName |-> <<>>, isPK |-> TRUE]
  ELSE IF Len(tag) >= 3 /\ SubSeq(tag, 1, 3) = <<"p", "k", ",">>
       THEN [dbName |-> SubSeq(tag, 4, Len(tag)), isPK |-> TRUE]
       ELSE [dbName |-> tag, isPK |-> FALSE]

\* concat
concat(s1, s2) ==
  IF s1 = <<>> THEN s2
  ELSE IF s2 = <<>> THEN s1
  ELSE s1 \o <<".">> \o s2

\* &structInfo{nameMap: {}, dbNameMap: {}}
NewStructInfo == [nameMap |-> <<>>, dbNameMap |-> <<>>, pkNames |-> <<>>]

\* m[k] = v on a map keyed by names
MapSet(mp, k, v) == [n \in (DOMAIN mp) \cup {k} |-> IF n = k THEN v ELSE mp[n]]

\* A mutant: only the spelling ID is inferred.
InferPKOnlyID(si) ==
  IF Len(si.pkNames) = 0 /\ <<"I", "D">> \in DOMAIN si.nameMap
  THEN [si EXCEPT !.pkNames = Append(@, <<"I", "D">>)]
  ELSE si

\* structInfo.build, lines 201-207: the primary key inferred from the names
InferPK(si) ==
  IF Len(si.pkNames) = 0
  THEN IF <<"I", "D">> \in DOMAIN si.nameMap
       THEN [si EXCEPT !.pkNames = Append(@, <<"I", "D">>)]
       ELSE IF <<"I", "d">> \in DOMAIN si.nameMap
            THEN [si EXCEPT !.pkNames = Append(@, <<"I", "d">>)]
            ELSE si
  ELSE si

RECURSIVE build(_, _, _, _, _, _)

\* A mutant: the occurrence declared first keeps the name.
buildFieldFirstWins(si, a, i, path, namePrefix, dbNamePrefix, mapper) ==
  LET field == a.fields[i]
      tag == field.Tag
  IN  IF (~field.Anonymous /\ Unexported(field)) \/ tag = <<"-">> THEN si
      ELSE LET path2 == Append(path, i - 1)
               ft == field.Type
               parsed == parseTag(tag)
               dbName == IF parsed.dbName = <<>> /\ ~field.Anonymous
                         THEN (IF mapper # "nil" THEN DefaultFieldMapFunc(field.Name)
                               ELSE field.Name)
                         ELSE parsed.dbName
               name == IF field.Anonymous THEN <<>> ELSE field.Name
           IN  IF isNestedStruct(ft)
               THEN build(si, ft, path2, concat(namePrefix, name),
                          concat(dbNamePrefix, dbName), mapper)
               ELSE IF dbName # <<>>
                    THEN LET fi == [name |-> concat(namePrefix, name),
                                    dbName |-> concat(dbNamePrefix, dbName),
                                    path |-> path2]
                         IN  IF fi.name \notin DOMAIN si.nameMap
                             THEN [nameMap |-> MapSet(si.nameMap, fi.name, fi),
                                   dbNameMap |-> MapSet(si.dbNameMap, fi.dbName, fi),
                                   pkNames |-> IF parsed.isPK THEN Append(si.pkNames, fi.name)
                                               ELSE si.pkNames]
                             ELSE si
                    ELSE si

\* structInfo.build, lines 151-199: the i-th field of a
buildField(si, a, i, path, namePrefix, dbNamePrefix, mapper) ==
  LET field == a.fields[i]
      tag == field.Tag
  IN  IF (~field.Anonymous /\ Unexported(field)) \/ tag = <<"-">> THEN si
      ELSE LET path2 == Append(path, i - 1)
               ft == field.Type
               parsed == parseTag(tag)
               dbName == IF parsed.dbName = <<>> /\ ~field.Anonymous
                         THEN (IF mapper # "nil" THEN DefaultFieldMapFunc(field.Name)
                               ELSE field.Name)
                         ELSE parsed.dbName
               name == IF field.Anonymous THEN <<>> ELSE field.Name
           IN  IF isNestedStruct(ft)
               THEN build(si, ft, path2, concat(namePrefix, name),
                          concat(dbNamePrefix, dbName), mapper)
               ELSE IF dbName # <<>>
                    THEN LET fi == [name |-> concat(namePrefix, name),
                                    dbName |-> concat(dbNamePrefix, dbName),
                                    path |-> path2]
                         IN  IF fi.name \notin DOMAIN si.nameMap
                                \/ Len(path2) < Len(si.nameMap[fi.name].path)
                             THEN [nameMap |-> MapSet(si.nameMap, fi.name, fi),
                                   dbNameMap |-> MapSet(si.dbNameMap, fi.dbName, fi),
                                   pkNames |-> IF parsed.isPK THEN Append(si.pkNames, fi.name)
                                               ELSE si.pkNames]
                             ELSE si
                    ELSE si

\* structInfo.build, lines 149-200: the loop over the fields from the i-th on
RECURSIVE buildLoop(_, _, _, _, _, _, _)
buildLoop(si, a, i, path, namePrefix, dbNamePrefix, mapper) ==
  IF i > Len(a.fields) THEN si
  ELSE buildLoop(buildField(si, a, i, path, namePrefix, dbNamePrefix, mapper),
                 a, i + 1, path, namePrefix, dbNamePrefix, mapper)

\* structInfo.build
build(si, a, path, namePrefix, dbNamePrefix, mapper) ==
  InferPK(buildLoop(si, a, 1, path, namePrefix, dbNamePrefix, mapper))

\* ---- getStructInfo and the cache of structInfo objects

NumCallers == 3
MaxFields == 3

\* The goroutines that call getStructInfo.
Callers == 1..NumCallers

IdleCaller == [pc |-> "idle"]

nameID == <<"I", "D">>
nameId == <<"I", "d">>

\* The fields the struct types of the model are declared from.
FieldChoices ==
  { Field(nameID, <<>>, ScalarType),
    Field(nameID, <<"-">>, ScalarType),
    Field(nameId, <<>>, ScalarType),
    Field(<<"i", "d">>, <<>>, ScalarType),
    Field(<<"N">>, <<>>, ScannerType),
    Field(<<"N">>, <<"p", "k">>, ScalarType),
    Embedded(<<"E">>, <<>>, StructType(<<Field(<<"X">>, <<>>, ScalarType)>>)),
    Embedded(<<"E">>, <<>>, StructType(<<Field(nameID, <<>>, ScalarType)>>)),
    Embedded(<<"E">>, <<>>, StructType(<<Field(nameId, <<>>, ScalarType)>>)),
    Embedded(<<"E">>, <<>>, StructType(<<Field(nameID, <<"x">>, ScalarType)>>)),
    Embedded(<<"E">>, <<>>, StructType(<<Field(<<"N">>, <<"p", "k">>, ScalarType)>>)),
    Field(<<"P">>, <<>>, StructType(<<Field(nameID, <<>>, ScalarType)>>)) }

\* The struct types: up to MaxFields fields with different names.
StructTypes ==
  UNION { {StructType(fs) : fs \in {s \in [1..n -> FieldChoices] :
                                      \A i, j \in 1..n : i # j => s[i].Name # s[j].Name}}
          : n \in 0..MaxFields }

\* structInfoMapKey{a, reflect.ValueOf(mapper)}
StructKeys == {[t |-> a, m |-> mapper] : a \in StructTypes, mapper \in {"default", "nil"}}

\* The two keys concurrent callers ask for.
CacheKeys ==
  { [t |-> StructType(<<Field(nameID, <<>>, ScalarType)>>), m |-> "default"],
    [t |-> StructType(<<Field(nameId, <<>>, ScalarType),
                        Field(<<"N">>, <<"p", "k">>, ScalarType)>>), m |-> "nil"] }

\* Goroutine p calls getStructInfo(key.t, key.m).
GetStructInfo(p, key) ==
  /\ callers[p].pc = "idle"
  /\ callers' = [callers EXCEPT ![p] = [pc |-> "lock", key |-> key]]
  /\ UNCHANGED <<structInfoMap, mutex, built, stored>>
  /\ UNCHANGED nonStructVars

\* A mutant: the lock is taken without waiting for its holder.
LockNoExclusion(p) ==
  /\ callers[p].pc = "lock"
  /\ mutex' = p
  /\ callers' = [callers EXCEPT ![p].pc = "lookup"]
  /\ UNCHANGED <<structInfoMap, built, stored>>
  /\ UNCHANGED nonStructVars

\* muStructInfoMap.Lock()
Lock(p) ==
  /\ callers[p].pc = "lock"
  /\ mutex = 0
  /\ mutex' = p
  /\ callers' = [callers EXCEPT ![p].pc = "lookup"]
  /\ UNCHANGED <<structInfoMap, built, stored>>
  /\ UNCHANGED nonStructVars

\* if si, ok := structInfoMap[key]; ok { return si }
Lookup(p) ==
  /\ callers[p].pc = "lookup"
  /\ IF callers[p].key \in DOMAIN structInfoMap
     THEN callers' = [callers EXCEPT ![p] = [pc |-> "unlock", key |-> @.key,
                                             ret |-> structInfoMap[@.key]]]
     ELSE callers' = [callers EXCEPT ![p].pc = "build"]
  /\ UNCHANGED <<structInfoMap, mutex, built, stored>>
  /\ UNCHANGED nonStructVars

\* A mutant: the new structInfo is put into the map before it is built.
BuildInfoPublishFirst(p) ==
  /\ callers[p].pc = "build"
  /\ LET key == callers[p].key
         si == [id |-> Len(built) + 1,
                info |-> build(NewStructInfo, key.t, <<>>, <<>>, <<>>, key.m)]
     IN  /\ callers' = [callers EXCEPT ![p] = [pc |-> "store", key |-> key, si |-> si]]
         /\ structInfoMap' = MapSet(structInfoMap, key, [id |-> si.id, info |-> NewStructInfo])
  /\ built' = Append(built, callers[p].key)
  /\ UNCHANGED <<mutex, stored>>
  /\ UNCHANGED nonStructVars

\* si := &structInfo{...}; si.build(a, make([]int, 0), "", "", mapper)
BuildInfo(p) ==
  /\ callers[p].pc = "build"
  /\ LET key == callers[p].key
         si == [id |-> Len(built) + 1,
                info |-> build(NewStructInfo, key.t, <<>>, <<>>, <<>>, key.m)]
     IN  callers' = [callers EXCEPT ![p] = [pc |-> "store", key |-> key, si |-> si]]
  /\ built' = Append(built, callers[p].key)
  /\ UNCHANGED <<structInfoMap, mutex, stored>>
  /\ UNCHANGED nonStructVars

\* structInfoMap[key] = si; return si
Store(p) ==
  /\ callers[p].pc = "store"
  /\ structInfoMap' = MapSet(structInfoMap, callers[p].key, callers[p].si)
  /\ stored' = stored \cup {[key |-> callers[p].key, id |-> callers[p].si.id]}
  /\ callers' = [callers EXCEPT ![p] = [pc |-> "unlock", key |-> @.key, ret |-> @.si]]
  /\ UNCHANGED <<mutex, built>>
  /\ UNCHANGED nonStructVars

\* defer muStructInfoMap.Unlock(): the call returns
Unlock(p) ==
  /\ callers[p].pc = "unlock"
  /\ mutex' = 0
  /\ callers' = [callers EXCEPT ![p].pc = "done"]
  /\ UNCHANGED <<structInfoMap, built, stored>>
  /\ UNCHANGED nonStructVars

\* The caller works with the structInfo it was returned: structValue.pk and
\* structValue.columns read pkNames and nameMap into a map of their own.
\* The goroutine is then free to call getStructInfo again.
ReadInfo(p) ==
  /\ callers[p].pc = "done"
  /\ callers' = [callers EXCEPT ![p] = IdleCaller]
  /\ UNCHANGED <<structInfoMap, mutex, built, stored>>
  /\ UNCHANGED nonStructVars

(***************************************************************************)
(* The builders' statements (builder.go and the dialects' overrides).  A   *)
(* builder renders a statement as a string and returns the Query made of   *)
(* it; the Query is the one the facade's operations then act on.           *)
(***************************************************************************)

\* The characters of string s.
Chars(s) == [i \in 1..Len(s) |-> SubSeq(s, i, i)]

\* errors.New(msg) of an operation the dialect does not have.
UnsupportedError(msg) == [kind |-> "unsupported", msg |-> msg]

\* b.NewQuery(sql): the Query of a statement rendered as a string.
BuilderNewQuery(db, sql) ==
  LET r == processSQL(db, Chars(sql))
  IN  [sql |-> Chars(sql), rawSQL |-> r.sql, placeholders |-> r.placeholders,
       params |-> 1, stmt |-> FALSE, LastError |-> NoError]

\* The loop of BaseBuilder.Insert over the sorted names.
RECURSIVE InsertLoop(_, _, _, _, _, _, _)
InsertLoop(db, cols, names, columns, values, params, it) ==
  IF names = <<>> THEN [columns |-> columns, values |-> values, params |-> params]
  ELSE LET name == names[1]
           value == cols[name]
       IN  IF IsExpression(value)
           THEN LET r == Build(db, value, params, it)
                IN  InsertLoop(db, cols, Tail(names), Append(columns, QuoteCol(db, name)),
                               Append(values, r.sql), r.params, it)
           ELSE LET pn == ParamName(ParamsLen(params))
                IN  InsertLoop(db, cols, Tail(names), Append(columns, QuoteCol(db, name)),
                               Append(values, "{:" \o pn \o "}"),
                               ParamsSet(params, pn, value), it)

\* BaseBuilder.Insert after its loop: the statement of the columns and
\* values in r, and the Query made of it with the Params map bound (the map
\* the Query had before is empty, so Bind makes the Query hold this one).
InsertQuery(db, table, names, r) ==
  [q |-> BuilderNewQuery(
           db,
           IF Len(names) = 0
           THEN "INSERT INTO " \o QuoteTable(db, table) \o " DEFAULT VALUES"
           ELSE "INSERT INTO " \o QuoteTable(db, table) \o " (" \o JoinStr(r.columns, ", ")
                  \o ") VALUES (" \o JoinStr(r.values, ", ") \o ")"),
   params |-> r.params]

\* A mutant: the columns are taken in iteration order.
BuilderInsertUnsorted(db, table, cols, it) ==
  InsertQuery(db, table, MapKeys(cols, it),
              InsertLoop(db, cols, MapKeys(cols, it), <<>>, <<>>, EmptyParams, it))

\* BaseBuilder.Insert: the names are sorted, the loop runs over them.
BuilderInsert(db, table, cols, it) ==
  InsertQuery(db, table, SortStrings(MapKeys(cols, it)),
              InsertLoop(db, cols, SortStrings(MapKeys(cols, it)), <<>>, <<>>, EmptyParams, it))

\* The loop of MysqlBuilder.Upsert over the sorted names.
RECURSIVE UpsertLoop(_, _, _, _, _, _)
UpsertLoop(db, cols, names, lines, params, it) ==
  IF names = <<>> THEN [lines |-> lines, params |-> params]
  ELSE LET name == QuoteCol(db, names[1])
           value == cols[names[1]]
       IN  IF IsExpression(value)
           THEN LET r == Build(db, value, params, it)
                IN  UpsertLoop(db, cols, Tail(names), Append(lines, name \o "=" \o r.sql),
                               r.params, it)
           ELSE LET pn == ParamName(ParamsLen(params))
                IN  UpsertLoop(db, cols, Tail(names),
                               Append(lines, name \o "={:" \o pn \o "}"),
                               ParamsSet(params, pn, value), it)

\* MysqlBuilder.Upsert after its loop: the lines are appended to the sql of
\* Query q.
UpsertAppend(q, lines) ==
  [q EXCEPT !.sql = @ \o Chars(" ON DUPLICATE KEY UPDATE " \o JoinStr(lines, ", "))]

\* MysqlBuilder.Upsert from its loop on: r is what the loop returns, ins
\* the Query of Insert.
UpsertLines(ins, r) == [q |-> UpsertAppend(ins.q, r.lines), params |-> r.params]

\* A mutant: the update branch names its parameters from p0 again.
UpsertOfRestart(db, cols, it, ins) ==
  [UpsertLines(ins, UpsertLoop(db, cols, SortStrings(MapKeys(cols, it)), <<>>, EmptyParams, it))
     EXCEPT !.params = ParamsMerge(ins.params, @)]

\* MysqlBuilder.Upsert with ins the Query of Insert and its Params map:
\* the loop writes into that map.
UpsertOf(db, cols, it, ins) ==
  UpsertLines(ins, UpsertLoop(db, cols, SortStrings(MapKeys(cols, it)), <<>>, ins.params, it))

\* MysqlBuilder.Upsert: the Query of Insert with the update branch appended
\* to its sql, the branch's values added to the map the Query holds.
MysqlUpsert(db, table, cols, it) == UpsertOf(db, cols, it, BuilderInsert(db, table, cols, it))

\* BaseBuilder.Upsert: a Query of no SQL carrying the error.
BaseUpsert(db) ==
  [q |-> [BuilderNewQuery(db, "") EXCEPT !.LastError = UnsupportedError("Upsert is not supported")],
   params |-> EmptyParams]

\* The operations SqliteBuilder answers with an error, and the errors.
SqliteUnsupported ==
  [ DropColumn |-> "SQLite does not support dropping columns",
    RenameColumn |-> "SQLite does not support renaming columns",
    AlterColumn |-> "SQLite does not support altering column",
    AddPrimaryKey |-> "SQLite does not support adding primary key",
    DropPrimaryKey |-> "SQLite does not support dropping primary key",
    AddForeignKey |-> "SQLite does not support adding foreign keys",
    DropForeignKey |-> "SQLite does not support dropping foreign keys" ]

\* The tables and the column maps callers pass to the builders.
Tables == {<<"t">>}
InsertValues == {IntV(1), NilV, NoParamExp}
InsertCols == UNION {[S -> InsertValues] : S \in SUBSET HashCols}

\* The caller receives Query r.q holding Params map r.params from builder
\* method fn called with args.
BuilderReturns(fn, args, r) ==
  /\ driverName # ""
  /\ query = NoQuery
  /\ query' = r.q
  /\ heap' = (1 :> r.params)
  /\ tpl' = <<r.q.sql>>
  /\ ret' = [op |-> fn, err |-> NoError]
  /\ sent' = NoCall
  /\ bcall' = [fn |-> fn, args |-> args]
  /\ UNCHANGED <<driverName, mq>>
  /\ UNCHANGED nonModelVars

\* Builder.Insert(table, cols); it is the order in which maps iterate.
Insert(table, cols, it) ==
  BuilderReturns("Insert", [table |-> table, cols |-> cols],
                 BuilderInsert(driverName, table, cols, it))

\* Builder.Upsert(table, cols): MysqlBuilder has its own, the other
\* builders BaseBuilder's.
Upsert(table, cols, it) ==
  BuilderReturns("Upsert", [table |-> table, cols |-> cols],
                 IF newBuilder(driverName) = "mysql"
                 THEN MysqlUpsert(driverName, table, cols, it)
                 ELSE BaseUpsert(driverName))

\* SqliteBuilder's DropColumn, RenameColumn, AlterColumn, AddPrimaryKey,
\* DropPrimaryKey, AddForeignKey and DropForeignKey.
SqliteUnsupportedOp(op) ==
  /\ newBuilder(driverName) = "sqlite"
  /\ BuilderReturns(op, [table |-> <<"t">>],
                    [q |-> [BuilderNewQuery(driverName, "")
                              EXCEPT !.LastError = UnsupportedError(SqliteUnsupported[op])],
                     params |-> EmptyParams])

\* The end of BaseBuilder.Update and BaseBuilder.Delete: the WHERE clause w
\* is appended to the statement if it is not empty, the Query is made and
\* bound to the Params map.
WhereQuery(db, head, w) ==
  [q |-> BuilderNewQuery(db, IF w.sql # "" THEN head \o " WHERE " \o w.sql ELSE head),
   params |-> w.params]

\* BaseBuilder.Update after its loop, r being what the loop returns: the
\* WHERE clause is built on the same Params map.
UpdateWhere(db, table, where, it, r) ==
  WhereQuery(db, "UPDATE " \o QuoteTable(db, table) \o " SET " \o JoinStr(r.lines, ", "),
             IF where # NilV THEN Build(db, where, r.params, it)
             ELSE [sql |-> "", params |-> r.params])

\* BaseBuilder.Update: the SET lines over the sorted names, then the WHERE
\* clause.
BuilderUpdate(db, table, cols, where, it) ==
  UpdateWhere(db, table, where, it,
              UpsertLoop(db, cols, SortStrings(MapKeys(cols, it)), <<>>, EmptyParams, it))

\* BaseBuilder.Delete
BuilderDelete(db, table, where, it) ==
  WhereQuery(db, "DELETE FROM " \o QuoteTable(db, table),
             IF where # NilV THEN Build(db, where, EmptyParams, it)
             ELSE [sql |-> "", params |-> EmptyParams])

(***************************************************************************)
(* Model operations (model_query.go, struct.go, SelectQuery.Model).  A     *)
(* model is a pointer to a struct, given by its type, its table name and   *)
(* the values of its fields by logical name, or a value of another kind.   *)
(***************************************************************************)

NoModelQuery == [kind |-> "none"]

\* VarTypeError(msg), MissingPKError, CompositePKError
VarTypeError(msg) == [kind |-> "VarTypeError", msg |-> msg]
MissingPKError == [kind |-> "MissingPKError"]
CompositePKError == [kind |-> "CompositePKError"]

\* Go values of further kinds: unsigned integers, strings, pointers (a
\* nil pointer has no element).
UintV(i) == [t |-> "uint", i |-> i]
StrV(s) == [t |-> "string", s |-> s]
PtrV(elem) == [t |-> "ptr", elem |-> elem]

\* isAutoInc.  In the pointer case v.Elem() is handed on as a
\* reflect.Value, whose kind is Struct: only the nil pointer is empty.
isAutoInc(value) ==
  CASE value.t = "int" -> value.i = 0
    [] value.t = "uint" -> value.i = 0
    [] value.t = "ptr" -> value.elem = NilV
    [] value.t = "nil" -> TRUE
    [] OTHER -> FALSE

\* newStructValue: nil (NilV) unless the model is a struct.
newStructValue(model, mapper) ==
  IF model.kind # "struct" THEN NilV
  ELSE [t |-> "structValue",
        info |-> build(NewStructInfo, model.type, <<>>, <<>>, <<>>, mapper),
        values |-> model.values, tableName |-> model.table]

\* The elements of a list of names.
NameSet(list) == {list[i] : i \in DOMAIN list}

\* structValue.columns(include, exclude)
columns(s, include, exclude) ==
  LET nameMap == s.info.nameMap
      taken == IF Len(include) = 0 THEN DOMAIN nameMap
               ELSE NameSet(include) \cap DOMAIN nameMap
      dropped == {nameMap[n].dbName : n \in NameSet(exclude) \cap DOMAIN nameMap}
      kept == {nameMap[n].dbName : n \in taken} \ dropped
  IN  [c \in kept |-> s.values[CHOOSE n \in taken : nameMap[n].dbName = c]]

\* structValue.pk
pk(s) ==
  IF Len(s.info.pkNames) = 0 THEN <<>>
  ELSE columns(s, s.info.pkNames, <<>>)

\* delete(cols, name)
MapDelete(m, name) == [c \in (DOMAIN m) \ {name} |-> m[c]]

\* The model operation op, called with args, made Query r.q holding Params
\* map r.params and ran it through Executor method fn, which answered
\* outcome.
ModelRuns(op, args, r, fn, outcome) ==
  LET v == replacePlaceholders(r.q.placeholders, r.params)
      err == IF v.err # NoError THEN v.err ELSE outcome
  IN  /\ query' = [r.q EXCEPT !.LastError = err]
      /\ heap' = (1 :> r.params)
      /\ tpl' = <<r.q.sql>>
      /\ sent' = IF v.err # NoError THEN NoCall
                 ELSE [fn |-> fn, sql |-> r.q.rawSQL, args |-> v.values]
      /\ ret' = [op |-> op, err |-> err]
      /\ bcall' = [fn |-> op, args |-> args]

\* The model operation op, called with args, returned err at once.
ModelFails(op, args, err) ==
  /\ ret' = [op |-> op, err |-> err]
  /\ sent' = NoCall
  /\ bcall' = [fn |-> op, args |-> args]
  /\ UNCHANGED <<query, heap, tpl>>

\* db.Model(model): NewModelQuery.  A behaviour follows one ModelQuery or
\* one SelectQuery.
Model(model) ==
  /\ driverName # ""
  /\ mq = NoModelQuery
  /\ sel = NoSelect
  /\ LET s == newStructValue(model, "default")
     IN  mq' = [given |-> model, model |-> s, exclude |-> <<>>,
                lastError |-> IF s = NilV
                              THEN VarTypeError("must be a pointer to a struct representing the model")
                              ELSE NoError]
  /\ ModelFails("Model", [model |-> model], NoError)
  /\ UNCHANGED driverName
  /\ UNCHANGED nonModelVars

\* ModelQuery.Exclude(attrs)
Exclude(attrs) ==
  /\ mq # NoModelQuery
  /\ mq' = [mq EXCEPT !.exclude = attrs]
  /\ ModelFails("Exclude", [attrs |-> attrs], NoError)
  /\ UNCHANGED driverName
  /\ UNCHANGED nonModelVars

\* The first primary-key column, in the order the map iterates, whose value
\* isAutoInc; <<>> if there is none.
AutoIncColumn(pkm, it) ==
  LET auto == SelectSeq(MapKeys(pkm, it), LAMBDA c : isAutoInc(pkm[c]))
  IN  IF auto = <<>> THEN <<>> ELSE auto[1]

\* insertAndReturnPK on postgres: the RETURNING clause is appended to the
\* Query r.q of Insert.
Returning(db, pkName, r) ==
  IF pkName # <<>> /\ db = "postgres"
  THEN [q |-> [r.q EXCEPT !.sql = @ \o Chars(" RETURNING " \o QuoteCol(db, pkName)),
                          !.rawSQL = @ \o Chars(" RETURNING " \o QuoteCol(db, pkName))],
        params |-> r.params]
  ELSE r

\* The Query of ModelQuery.Insert: builder.Insert, and for a generated key
\* on postgres the RETURNING clause insertAndReturnPK appends.
ModelInsertQuery(db, s, cols, pkName, it) ==
  Returning(db, pkName, BuilderInsert(db, s.tableName, cols, it))

\* pkField.SetUint / pkField.SetInt with the generated key
SetPK(s, pkName, id) ==
  LET field == s.info.dbNameMap[pkName].name
  IN  [s EXCEPT !.values[field] = IF @.t = "uint" THEN UintV(id) ELSE IntV(id)]

\* ModelQuery.Insert(attrs...); outcome is the Executor's answer, id the key
\* the database generated.
ModelInsert(attrs, it, outcome, id) ==
  /\ mq # NoModelQuery
  /\ IF mq.lastError # NoError
     THEN /\ ModelFails("ModelQuery.Insert", [attrs |-> attrs, on |-> mq], mq.lastError)
          /\ mq' = mq
     ELSE LET pkName == AutoIncColumn(pk(mq.model), it)
              cols == MapDelete(columns(mq.model, attrs, mq.exclude), pkName)
              r == ModelInsertQuery(driverName, mq.model, cols, pkName, it)
          IN  /\ ModelRuns("ModelQuery.Insert", [attrs |-> attrs, on |-> mq], r,
                           IF pkName # <<>> /\ driverName = "postgres" THEN "Query" ELSE "Exec",
                           outcome)
              /\ mq' = IF pkName # <<>> /\ outcome = NoError
                       THEN [mq EXCEPT !.model = SetPK(@, pkName, id)]
                       ELSE mq
  /\ UNCHANGED driverName
  /\ UNCHANGED nonModelVars

\* A mutant: Update does not ask whether there is a primary key.
ModelUpdateAnyway(attrs, it, outcome) ==
  /\ mq # NoModelQuery
  /\ IF mq.lastError # NoError
     THEN ModelFails("ModelQuery.Update", [attrs |-> attrs, on |-> mq], mq.lastError)
     ELSE LET pkm == pk(mq.model)
              all == columns(mq.model, attrs, mq.exclude)
              cols == [c \in (DOMAIN all) \ (DOMAIN pkm) |-> all[c]]
          IN  ModelRuns("ModelQuery.Update", [attrs |-> attrs, on |-> mq],
                        BuilderUpdate(driverName, mq.model.tableName, cols, HashExp(pkm), it),
                        "Exec", outcome)
  /\ UNCHANGED <<driverName, mq>>
  /\ UNCHANGED nonModelVars

\* ModelQuery.Update(attrs...)
ModelUpdate(attrs, it, outcome) ==
  /\ mq # NoModelQuery
  /\ IF mq.lastError # NoError
     THEN ModelFails("ModelQuery.Update", [attrs |-> attrs, on |-> mq], mq.lastError)
     ELSE LET pkm == pk(mq.model)
              all == columns(mq.model, attrs, mq.exclude)
              cols == [c \in (DOMAIN all) \ (DOMAIN pkm) |-> all[c]]
          IN  IF Cardinality(DOMAIN pkm) = 0
              THEN ModelFails("ModelQuery.Update", [attrs |-> attrs, on |-> mq], MissingPKError)
              ELSE ModelRuns("ModelQuery.Update", [attrs |-> attrs, on |-> mq],
                             BuilderUpdate(driverName, mq.model.tableName, cols, HashExp(pkm), it),
                             "Exec", outcome)
  /\ UNCHANGED <<driverName, mq>>
  /\ UNCHANGED nonModelVars

\* ModelQuery.Delete
ModelDelete(it, outcome) ==
  /\ mq # NoModelQuery
  /\ IF mq.lastError # NoError
     THEN ModelFails("ModelQuery.Delete", [attrs |-> <<>>, on |-> mq], mq.lastError)
     ELSE LET pkm == pk(mq.model)
          IN  IF Cardinality(DOMAIN pkm) = 0
              THEN ModelFails("ModelQuery.Delete", [attrs |-> <<>>, on |-> mq], MissingPKError)
              ELSE ModelRuns("ModelQuery.Delete", [attrs |-> <<>>, on |-> mq],
                             BuilderDelete(driverName, mq.model.tableName, HashExp(pkm), it),
                             "Exec", outcome)
  /\ UNCHANGED <<driverName, mq>>
  /\ UNCHANGED nonModelVars

\* SelectQuery.Build, line 553: the UNION clauses u are appended and the
\* Query is made.
SelectQueryOf(db, sql, u) ==
  [q |-> BuilderNewQuery(db, IF u.sql # "" THEN "(" \o sql \o ") " \o u.sql ELSE sql),
   params |-> u.params]

\* SelectQuery.Build, lines 536-553, w and h being the WHERE and HAVING
\* clauses built.
SelectUnion(db, s, w, h) ==
  SelectQueryOf(db,
                BuildOrderByAndLimit(
                  db, JoinClauses(<<BuildSelect, BuildFrom(db, s.from), "", w.sql, "", h.sql>>, ""),
                  s.orderBy, s.limit, s.offset),
                BuildUnion(s.union, h.params))

\* SelectQuery.Build, line 535 on, w being the WHERE clause built.
SelectHaving(db, s, it, w) == SelectUnion(db, s, w, BuildHaving(db, s.having, w.params, it))

\* SelectQuery.Build in one step, as the operations that build and run a
\* query at once make it.
SelectBuild(db, s, it) ==
  SelectHaving(db, s, it, BuildWhere(db, s.where, ParamsMerge(EmptyParams, s.params), it))

\* s.AndWhere(...).One(model): s is the SelectQuery with the condition and,
\* if it named none, the model's table; it is built and run.
SelectOne(model, it, outcome, s) ==
  /\ sel' = s
  /\ ModelRuns("SelectQuery.Model", [model |-> model, on |-> sel],
               SelectBuild(driverName, s, it), "Query", outcome)

\* SelectQuery.Model from line 586 on, si being getStructInfo of the model.
SelectModelOf(pkv, model, it, outcome, si) ==
  IF Len(si.pkNames) = 1
  THEN SelectOne(model, it, outcome,
                 [sel EXCEPT !.where = And(<<sel.where,
                                             HashExp([c \in {si.nameMap[si.pkNames[1]].dbName}
                                                        |-> pkv])>>),
                             !.from = IF Len(@) = 0 THEN <<model.table>> ELSE @])
  ELSE /\ ModelFails("SelectQuery.Model", [model |-> model, on |-> sel],
                     IF Len(si.pkNames) = 0 THEN MissingPKError ELSE CompositePKError)
       /\ sel' = sel

\* SelectQuery.Model(pk, model), called on a SelectQuery that has no
\* condition yet: the condition on the key column is added to the WHERE
\* clause, then One names the table if none is named, builds the query and
\* runs it.
SelectModel(pkv, model, it, outcome) ==
  /\ sel # NoSelect
  /\ pass = IdlePass
  /\ sel.where = NilV
  /\ mq = NoModelQuery
  /\ IF model.kind # "struct"
     THEN /\ ModelFails("SelectQuery.Model", [model |-> model, on |-> sel],
                        VarTypeError("must be a pointer to a struct"))
          /\ sel' = sel
     ELSE SelectModelOf(pkv, model, it, outcome,
                        build(NewStructInfo, model.type, <<>>, <<>>, <<>>, "default"))
  /\ UNCHANGED <<pass, lastQuery, builds, driverName, mq>>
  /\ UNCHANGED <<expVars, tx, structVars>>

\* ---- the models of the callers

\* struct { ID; N }: the key is inferred.
ModelOne == StructType(<<Field(nameID, <<>>, ScalarType), Field(<<"N">>, <<>>, ScalarType)>>)

\* struct { D `db:"pk"`; P `db:"pk"`; N }: a composite key.
ModelTwo ==
  StructType(<<Field(<<"D">>, <<"p", "k">>, ScalarType), Field(<<"P">>, <<"p", "k">>, ScalarType),
               Field(<<"N">>, <<>>, ScalarType)>>)

\* struct { N }: no key.
ModelNone == StructType(<<Field(<<"N">>, <<>>, ScalarType)>>)

\* The values of the key field ID.
KeyValues ==
  { IntV(0), IntV(5), UintV(0), UintV(5), NilV, StrV(""), PtrV(NilV), PtrV(IntV(0)) }

\* The models: pointers to structs with their field values, and a value
\* that is no struct.
Models ==
  { [kind |-> "struct", table |-> <<"t">>, type |-> ModelOne,
     values |-> (nameID :> v) @@ (<<"N">> :> IntV(1))] : v \in KeyValues }
  \cup
  { [kind |-> "struct", table |-> <<"t">>, type |-> ModelTwo,
     values |-> (<<"D">> :> d) @@ (<<"P">> :> p) @@ (<<"N">> :> IntV(1))]
      : d \in {IntV(0), IntV(3)}, p \in {IntV(0), IntV(3)} }
  \cup
  { [kind |-> "struct", table |-> <<"t">>, type |-> ModelNone,
     values |-> (<<"N">> :> IntV(1))],
    [kind |-> "int"] }

\* Two orders in which maps over the columns of the models' tables may
\* iterate, one the reverse of the other: any two columns are met in both
\* orders.
ModelIterOrders ==
  { << <<"d">>, <<"i", "d">>, <<"n">>, <<"p">> >>, << <<"p">>, <<"n">>, <<"i", "d">>, <<"d">> >> }

\* The field lists callers pass as attrs and to Exclude.
AttrLists == { <<>>, << <<"N">> >> }

(***************************************************************************)
(* The specifications: one initial state, one next-state relation per      *)
(* component.                                                              *)
(***************************************************************************)

Init ==
  /\ driverName = ""
  /\ query = NoQuery
  /\ tpl = <<>>
  /\ heap = <<>>
  /\ ret = [op |-> "none", err |-> NoError]
  /\ sent = NoCall
  /\ bExp = NilV
  /\ bParams = EmptyParams
  /\ bSql = ""
  /\ bPhase = "none"
  /\ sel = NoSelect
  /\ pass = IdlePass
  /\ lastQuery = NoQuery
  /\ builds = 0
  /\ tx = NoTx
  /\ structInfoMap = <<>>
  /\ mutex = 0
  /\ callers = [p \in Callers |-> IdleCaller]
  /\ built = <<>>
  /\ stored = {}
  /\ bcall = NoCall
  /\ mq = NoModelQuery

\* The preprocessor: any template, bound and executed.
NextSQL ==
  \/ \E d \in Drivers : Open(d)
  \/ \E parts \in Templates : NewQuery(parts)
  \/ \E params \in ParamChoices : Bind(params)
  \/ \E o \in Outcomes : Execute(o)

SpecSQL == Init /\ [][NextSQL]_vars

\* The facade: a query's whole life.
NextQuery ==
  \/ \E d \in Drivers : Open(d)
  \/ \E parts \in QueryTemplates : NewQuery(parts)
  \/ \E params \in ParamChoices : Bind(params)
  \/ \E o \in Outcomes : Execute(o)
  \/ \E o \in Outcomes : Rows(o)
  \/ \E o \in Outcomes : Prepare(o)
  \/ Close

SpecQuery == Init /\ [][NextQuery]_vars

\* The expression algebra: an expression is constructed, then built.
NextExp ==
  \/ \E d \in {"other", "mysql", "mssql"} : Open(d)
  \/ \E e \in Exps, params \in BuildParams : Construct(e, params)
  \/ \E it \in IterOrders : BuildExp(it)

SpecExp == Init /\ [][NextExp]_vars

\* SELECT queries: configured, built, and united with the ones built before.
NextSelect ==
  \/ \E d \in {"other", "mysql"} : Open(d)
  \/ NewSelectQuery
  \/ \E e \in WhereExps : Where(e)
  \/ \E e \in HavingExps : Having(e)
  \/ \E all \in BOOLEAN : Union(all)
  \/ \E params \in SelectParams : SelectBind(params)
  \/ BuildBegin
  \/ \E it \in IterOrders : BuildWhereStep(it)
  \/ \E it \in IterOrders : BuildHavingStep(it)
  \/ BuildUnionStep
  \/ BuildEnd

SpecSelect == Init /\ [][NextSelect]_vars

\* Transactions: begun, used by the callback, finished by the wrapper.
NextTx ==
  \/ \E d \in Drivers : Open(d)
  \/ \E v \in {"Transactional", "TransactionalContext"}, ok \in BOOLEAN : TransactionalBegin(v, ok)
  \/ CallbackExec
  \/ \E call \in {"Commit", "Rollback"} : CallbackFinish(call)
  \/ ContextCancel
  \/ \E outcome \in {"nil", "err", "panic"} : CallbackEnd(outcome)
  \/ \E res \in {"nil", "driver error", "ErrTxDone"} : TransactionalEnd(res)

SpecTx == Init /\ [][NextTx]_vars

\* The struct mapping: one goroutine asks for the mapping of any type.
NextStruct ==
  \/ \E key \in StructKeys : GetStructInfo(1, key)
  \/ Lock(1)
  \/ Lookup(1)
  \/ BuildInfo(1)
  \/ Store(1)
  \/ Unlock(1)

SpecStruct == Init /\ [][NextStruct]_vars

\* The cache: the goroutines ask for the mappings of two types concurrently.
NextCache ==
  \/ \E p \in Callers, key \in CacheKeys : GetStructInfo(p, key)
  \/ \E p \in Callers : Lock(p)
  \/ \E p \in Callers : Lookup(p)
  \/ \E p \in Callers : BuildInfo(p)
  \/ \E p \in Callers : Store(p)
  \/ \E p \in Callers : Unlock(p)
  \/ \E p \in Callers : ReadInfo(p)

SpecCache == Init /\ [][NextCache]_vars

\* The builders: a statement is rendered, then the Query lives its life.
NextBuilder ==
  \/ \E d \in {"other", "mysql", "sqlite3", "mssql"} : Open(d)
  \/ \E t \in Tables, cols \in InsertCols, it \in IterOrders : Insert(t, cols, it)
  \/ \E t \in Tables, cols \in InsertCols, it \in IterOrders : Upsert(t, cols, it)
  \/ \E op \in DOMAIN SqliteUnsupported : SqliteUnsupportedOp(op)
  \/ \E o \in Outcomes : Execute(o)
  \/ \E o \in Outcomes : Rows(o)
  \/ \E o \in Outcomes : Prepare(o)
  \/ Close

SpecBuilder == Init /\ [][NextBuilder]_vars

\* The pagination a caller asks for: limits, offsets and orderings.
PageLimits == {-1, 0, 10}

PageOffsets == {-1, 0, 2}

OrderCols == { <<>>, << <<"a">> >>, << <<"b", " ", "d", "e", "s", "c">>, <<"a">> >> }

\* Paginated SELECT statements on the dialects with their own
\* BuildOrderByAndLimit.
NextPage ==
  \/ \E d \in {"other", "mssql", "oci8"} : Open(d)
  \/ NewSelectQuery
  \/ \E t \in Tables : From(<<t>>)
  \/ \E cols \in OrderCols : OrderBy(cols)
  \/ \E limit \in PageLimits : Limit(limit)
  \/ \E offset \in PageOffsets : Offset(offset)
  \/ BuildBegin
  \/ \E it \in IterOrders : BuildWhereStep(it)
  \/ \E it \in IterOrders : BuildHavingStep(it)
  \/ BuildUnionStep
  \/ BuildEnd

SpecPage == Init /\ [][NextPage]_vars

\* Model operations: a ModelQuery or a SelectQuery is made for a model and
\* operations are called on it.
NextModel ==
  \/ \E d \in {"other", "mysql", "postgres"} : Open(d)
  \/ \E m \in Models : Model(m)
  \/ \E attrs \in AttrLists : Exclude(attrs)
  \/ \E attrs \in AttrLists, it \in ModelIterOrders, o \in Outcomes : ModelInsert(attrs, it, o, 7)
  \/ \E attrs \in AttrLists, it \in ModelIterOrders, o \in Outcomes : ModelUpdate(attrs, it, o)
  \/ \E it \in ModelIterOrders, o \in Outcomes : ModelDelete(it, o)
  \/ NewSelectQuery
  \/ \E m \in Models, it \in ModelIterOrders, o \in Outcomes : SelectModel(IntV(5), m, it, o)

SpecModel == Init /\ [][NextModel]_vars

(***************************************************************************)
(* C1, C2: the preprocessor's placeholder order and missing parameters     *)
(***************************************************************************)

\* Whether a template part is a {:name} placeholder.
IsPlaceholderPart(part) == Len(part) = 4 /\ part[1] = "{" /\ part[2] = ":" /\ part[4] = "}"

\* The names of the placeholder parts of a template, left to right, repeats kept.
RECURSIVE OccurrenceNames(_)
OccurrenceNames(parts) ==
  IF parts = <<>> THEN <<>>
  ELSE (IF IsPlaceholderPart(parts[1]) THEN <<parts[1][3]>> ELSE <<>>)
         \o OccurrenceNames(Tail(parts))

\* The anonymous marker of a driver for index i, as the claim names them.
MarkerFor(driver, i) ==
  IF driver = "postgres" THEN <<"$">> \o Digits(i)
  ELSE IF driver = "oci8" THEN <<":", "p">> \o Digits(i)
  ELSE <<"?">>

\* A name in the quotes of a driver.
Quoted(driver, name) ==
  IF driver = "mysql" THEN <<Backtick, name, Backtick>>
  ELSE IF driver = "mssql" THEN <<"[", name, "]">>
  ELSE <<"\"", name, "\"">>

\* The text a template is expected to become: the i-th placeholder part is
\* the marker for index i, a table or column marker is its quoted name, the
\* rest is kept.  n placeholders have been seen before parts.
RECURSIVE ExpectedRaw(_, _, _)
ExpectedRaw(driver, parts, n) ==
  IF parts = <<>> THEN <<>>
  ELSE LET part == parts[1]
       IN  IF IsPlaceholderPart(part)
           THEN MarkerFor(driver, n + 1) \o ExpectedRaw(driver, Tail(parts), n + 1)
           ELSE (CASE part = <<"{", "{", "t", ".", "u", "}", "}">> ->
                        Quoted(driver, "t") \o <<".">> \o Quoted(driver, "u")
                   [] part = <<"[", "[", "t", ".", "c", "]", "]">> ->
                        Quoted(driver, "t") \o <<".">> \o Quoted(driver, "c")
                   [] OTHER -> part)
                  \o ExpectedRaw(driver, Tail(parts), n)

\* C1: the placeholder list of a query has one entry per {:name} occurrence
\* of its template, left to right, repeats kept; the i-th occurrence has
\* become the dialect's marker for index i; and the values handed to the
\* executor have at position i the value bound to the i-th listed name.
C1_PlaceholderOrder ==
  query # NoQuery =>
    /\ query.placeholders = OccurrenceNames(tpl)
    /\ query.rawSQL = ExpectedRaw(driverName, tpl, 0)
    /\ sent # NoCall =>
         /\ sent.sql = query.rawSQL
         /\ Len(sent.args) = Len(OccurrenceNames(tpl))
         /\ \A i \in 1..Len(sent.args) :
              sent.args[i] = heap[query.params][OccurrenceNames(tpl)[i]]

\* C1's case: two different names, numbered markers, both values executed.
C1_Witness ==
  /\ query # NoQuery
  /\ driverName = "postgres"
  /\ query.placeholders = <<"b", "a">>
  /\ query.rawSQL = <<"$", "1", "$", "2">>
  /\ sent # NoCall
  /\ sent.args = <<IntV(1), IntV(2)>>

\* The first placeholder occurrence of the query that has no bound value.
FirstUnbound ==
  LET ph == query.placeholders
      p == heap[query.params]
  IN  ph[CHOOSE i \in 1..Len(ph) :
           ph[i] \notin DOMAIN p /\ \A j \in 1..(i - 1) : ph[j] \in DOMAIN p]

C3_AppendOnly ==
  [][ (pass # IdlePass /\ pass' # IdlePass) =>
        \A k \in DOMAIN pass.params :
          k \in DOMAIN pass'.params /\ pass'.params[k] = pass.params[k] ]_vars

(***************************************************************************)
(* C6 .. C9: the expression algebra                                        *)
(***************************************************************************)

\* The step in which the held expression is built.
BuildStep == bPhase = "held" /\ bPhase' = "built"

\* One iteration order, for maps of at most one key.
AnOrder == CHOOSE it \in IterOrders : TRUE

\* The non-empty fragments of the non-nil entries of exps, in order, each
\* entry built on the Params map the entries before it left.
RECURSIVE EntryFragments(_, _, _)
EntryFragments(db, exps, params) ==
  IF exps = <<>> THEN <<>>
  ELSE IF exps[1] = NilV THEN EntryFragments(db, Tail(exps), params)
  ELSE LET r == Build(db, exps[1], params, AnOrder)
       IN  (IF r.sql = "" THEN <<>> ELSE <<r.sql>>)
             \o EntryFragments(db, Tail(exps), r.params)

\* (e1) OP (e2) ... (en)
RECURSIVE Parenthesised(_, _)
Parenthesised(frags, op) ==
  IF Len(frags) = 1 THEN "(" \o frags[1] \o ")"
  ELSE "(" \o frags[1] \o ") " \o op \o " " \o Parenthesised(Tail(frags), op)

\* C6: And/Or of an empty list renders the empty string; with exactly one
\* non-empty entry it renders that entry's fragment unwrapped; with two or
\* more it renders (e1) OP (e2) ...; nil entries are skipped.
C6_AndOrRendering ==
  [][ (BuildStep /\ bExp.t = "AndOr") =>
        LET frags == EntryFragments(driverName, bExp.exps, bParams)
        IN  /\ Len(bExp.exps) = 0 => bSql' = ""
            /\ Len(frags) = 1 => bSql' = frags[1]
            /\ Len(frags) >= 2 => bSql' = Parenthesised(frags, bExp.op) ]_vars

\* And(nil, HashExp{"a": 1}) has rendered the hash's fragment, unwrapped.
C6_Witness ==
  /\ bPhase = "built"
  /\ driverName = "other"
  /\ bExp = And(<<NilV, HashExp([c \in {<<"a">>} |-> IntV(1)])>>)
  /\ bSql = "\"a\"={:p0}"
  /\ bParams = [n \in {"p0"} |-> IntV(1)]

\* C7: In with an empty value list renders 0=1, NotIn with an empty value
\* list renders the empty string, and neither touches the parameter set.
C7_EmptyIn ==
  [][ (BuildStep /\ bExp.t = "In" /\ Len(bExp.values) = 0) =>
        /\ bSql' = (IF bExp.not THEN "" ELSE "0=1")
        /\ bParams' = bParams ]_vars

\* NotIn("a") has rendered nothing and left the caller's parameter alone.
C7_Witness ==
  /\ bPhase = "built"
  /\ bExp = NotIn(<<"a">>, <<>>)
  /\ bSql = ""
  /\ bParams = [n \in {"x"} |-> IntV(9)]

\* The keys of S in ascending order.
Ascending(S) ==
  CHOOSE s \in [1..Cardinality(S) -> S] :
    \A i, j \in DOMAIN s : i < j => StrLess(s[i], s[j])

\* A map whose values are nil or plain values.
PlainMap(m) == \A c \in DOMAIN m : m[c].t \in {"nil", "int"}

\* The next k generated names are not in params yet.
FreshFrom(params, k) ==
  \A i \in 0..(k - 1) : ParamName(ParamsLen(params) + i) \notin DOMAIN params

\* The number of plain values among the first i-1 keys.
PlainBefore(m, keys, i) == Cardinality({j \in 1..(i - 1) : m[keys[j]].t = "int"})

\* The fragment of the i-th key of a plain map built on n parameters.
PlainFragment(db, m, keys, i, n) ==
  IF m[keys[i]].t = "nil" THEN QuoteCol(db, keys[i]) \o " IS NULL"
  ELSE QuoteCol(db, keys[i]) \o "={:" \o ParamName(n + PlainBefore(m, keys, i)) \o "}"

\* C8: HashExp.Build does not depend on the order in which the map
\* iterates: whatever that order, the fragment and the bindings are the
\* same, with the columns in ascending key order.
C8_HashDeterministic ==
  [][ (BuildStep /\ bExp.t = "Hash") =>
        /\ \A it \in IterOrders :
             HashExpBuild(driverName, bExp, bParams, it) = [sql |-> bSql', params |-> bParams']
        /\ (PlainMap(bExp.m) /\ FreshFrom(bParams, Cardinality(DOMAIN bExp.m))) =>
             LET keys == Ascending(DOMAIN bExp.m)
                 n == ParamsLen(bParams)
             IN  /\ bSql' = JoinStr([i \in 1..Len(keys) |->
                                       PlainFragment(driverName, bExp.m, keys, i, n)], " AND ")
                 /\ \A i \in 1..Len(keys) :
                      bExp.m[keys[i]].t = "int" =>
                        bParams'[ParamName(n + PlainBefore(bExp.m, keys, i))] = bExp.m[keys[i]] ]_vars

\* HashExp{"a": nil, "ab": 2, "B": 1} has rendered B, a, ab in that order.
C8_Witness ==
  /\ bPhase = "built"
  /\ driverName = "other"
  /\ bExp.t = "Hash"
  /\ DOMAIN bExp.m = HashCols
  /\ bSql = "\"B\"={:p0} AND \"a\" IS NULL AND \"ab\"={:p1}"
  /\ bParams = [n \in {"p0", "p1"} |-> IF n = "p0" THEN IntV(1) ELSE IntV(2)]

\* C9: Between/NotBetween build adds exactly two entries to the parameter
\* set, whatever it held before, bound to the lower and the upper bound, and
\* renders col BETWEEN {:a} AND {:b} with a, b the names of the new entries.
C9_BetweenTwoNew ==
  [][ (BuildStep /\ bExp.t = "Between") =>
        LET new == (DOMAIN bParams') \ (DOMAIN bParams)
        IN  /\ ParamsLen(bParams') = ParamsLen(bParams) + 2
            /\ \E a, b \in new :
                 /\ a # b
                 /\ bParams'[a] = bExp.from
                 /\ bParams'[b] = bExp.to
                 /\ bSql' = QuoteCol(driverName, bExp.col)
                              \o (IF bExp.not THEN " NOT BETWEEN " ELSE " BETWEEN ")
                              \o "{:" \o a \o "} AND {:" \o b \o "}" ]_vars

(***************************************************************************)
(* C4: the transaction wrapper                                             *)
(***************************************************************************)

\* C4: when Begin succeeds, Transactional (and TransactionalContext) makes
\* exactly one finishing call on the transaction, and makes it before
\* control leaves: Rollback if the callback returned an error or panicked
\* (the panic then reaches the caller), Commit if it returned nil.
C4_FinishedExactlyOnce ==
  /\ tx.pc \in {"callback", "deferred"} => tx.own = <<>>
  /\ (tx.pc = "left" /\ tx.state # "none") =>
       /\ Len(tx.own) = 1
       /\ tx.outcome \in {"err", "panic"} => tx.own = <<"Rollback">>
       /\ tx.outcome = "nil" => tx.own = <<"Commit">>
       /\ tx.outcome = "panic" <=> tx.ret.kind = "panic"

\* TransactionalContext has left by a panic of the callback, rolled back.
C4_Witness ==
  /\ tx.pc = "left"
  /\ tx.variant = "TransactionalContext"
  /\ tx.stmts = 1
  /\ tx.outcome = "panic"
  /\ tx.own = <<"Rollback">>
  /\ tx.ret.kind = "panic"

(***************************************************************************)
(* C5: the structInfo cache under concurrent callers                       *)
(***************************************************************************)

\* The goroutines whose getStructInfo call holds its result.
Returned == {p \in Callers : callers[p].pc \in {"unlock", "done"}}

\* C5: whatever the interleaving of the callers, the mapping of a key is
\* built at most once, at most one structInfo is ever stored for it, and
\* every caller is returned that stored object.
C5_BuiltOnce ==
  /\ \A key \in CacheKeys : Cardinality({i \in 1..Len(built) : built[i] = key}) <= 1
  /\ \A key \in CacheKeys : Cardinality({s \in stored : s.key = key}) <= 1
  /\ \A p \in Returned :
       /\ callers[p].key \in DOMAIN structInfoMap
       /\ callers[p].ret = structInfoMap[callers[p].key]
       /\ [key |-> callers[p].key, id |-> callers[p].ret.id] \in stored
  /\ \A p, q \in Returned :
       callers[p].key = callers[q].key => callers[p].ret.id = callers[q].ret.id

\* Two goroutines asked for the same key; one build served both.
C5_Witness ==
  /\ callers[1].pc = "done"
  /\ callers[2].pc = "done"
  /\ callers[1].key = callers[2].key
  /\ callers[1].ret.id = callers[2].ret.id
  /\ Len(built) = 1

(***************************************************************************)
(* C10: the inferred primary key                                           *)
(***************************************************************************)

\* No field of a, at any depth, carries a pk tag.
RECURSIVE NoPkTag(_)
NoPkTag(a) ==
  \A i \in 1..Len(a.fields) :
    /\ ~parseTag(a.fields[i].Tag).isPK
    /\ a.fields[i].Type.kind = "struct" => NoPkTag(a.fields[i].Type)

\* The logical names of the mapped fields of a: the field's own name, after
\* the names of the named structs around it; embedded structs add nothing.
RECURSIVE LogicalNames(_, _)
LogicalNames(a, prefix) ==
  UNION { LET f == a.fields[i]
              own == IF f.Anonymous THEN <<>> ELSE f.Name
          IN  IF f.Tag = <<"-">> \/ (~f.Anonymous /\ f.Name[1] \notin UpperChars) THEN {}
              ELSE IF f.Type.kind = "struct" THEN LogicalNames(f.Type, concat(prefix, own))
              ELSE {concat(prefix, own)}
          : i \in 1..Len(a.fields) }

\* The struct type the single caller asked for, and the mapping returned.
AskedType == callers[1].key.t
ReturnedInfo == callers[1].ret.info

RECURSIVE Occurrences(_, _, _)
Occurrences(a, prefix, path) ==
  UNION { LET f == a.fields[i]
              own == IF f.Anonymous THEN <<>> ELSE f.Name
          IN  IF f.Tag = <<"-">> \/ (~f.Anonymous /\ f.Name[1] \notin UpperChars) THEN {}
              ELSE IF f.Type.kind = "struct"
                   THEN Occurrences(f.Type, concat(prefix, own), Append(path, i - 1))
                   ELSE {[name |-> concat(prefix, own), path |-> Append(path, i - 1)]}
          : i \in 1..Len(a.fields) }

\* C11: a logical name reached through several paths is mapped to an
\* occurrence with the shortest index path, whichever is declared first.
C11_ShortestPathWins ==
  callers[1].pc = "done" =>
    LET occ == Occurrences(AskedType, <<>>, <<>>)
    IN  /\ DOMAIN ReturnedInfo.nameMap = {o.name : o \in occ}
        /\ \A n \in DOMAIN ReturnedInfo.nameMap :
             /\ [name |-> n, path |-> ReturnedInfo.nameMap[n].path] \in occ
             /\ \A o \in occ :
                  o.name = n => Len(ReturnedInfo.nameMap[n].path) <= Len(o.path)

\* The embedded struct with its ID is declared first, the field ID after
\* it: ID is mapped to the outer field.
C11_Witness ==
  /\ callers[1].pc = "done"
  /\ AskedType = StructType(<<Embedded(<<"E">>, <<>>, StructType(<<Field(nameID, <<>>, ScalarType)>>)),
                              Field(nameID, <<>>, ScalarType)>>)
  /\ ReturnedInfo.nameMap[nameID].path = <<1>>

(***************************************************************************)
(* C12, C13: model operations                                              *)
(***************************************************************************)

\* ModelQuery.Insert() of all fields was the last call, made on a struct
\* model; Called is the ModelQuery as it was called.
Called == bcall.args.on

InsertCalled ==
  /\ bcall.fn = "ModelQuery.Insert"
  /\ Called.lastError = NoError
  /\ Called.exclude = <<>>
  /\ bcall.args.attrs = <<>>

\* The zero value of an integer kind, a nil pointer, or an untyped nil.
EmptyKey(v) == (v.t \in {"int", "uint"} /\ v.i = 0) \/ v = PtrV(NilV) \/ v = NilV

\* The statement of the call is the INSERT of exactly the columns cols with
\* their values (on postgres a RETURNING clause may follow).
InsertsExactly(cols) ==
  LET it == CHOOSE o \in ModelIterOrders : TRUE
      e == BuilderInsert(driverName, Called.model.tableName, cols, it)
  IN  /\ Len(query.sql) >= Len(e.q.sql)
      /\ SubSeq(query.sql, 1, Len(e.q.sql)) = e.q.sql
      /\ heap[query.params] = e.params

\* C12: ModelQuery.Insert leaves a primary-key column out of the INSERT if
\* and only if its value is the zero value of an integer kind, a nil
\* pointer or an untyped nil; every other primary-key value is inserted as
\* supplied.
C12_EmptyKeysLeftOut ==
  InsertCalled =>
    LET pkm == pk(Called.model)
        all == columns(Called.model, <<>>, <<>>)
        left == {c \in DOMAIN all : c \in DOMAIN pkm /\ EmptyKey(pkm[c])}
    IN  InsertsExactly([c \in (DOMAIN all) \ left |-> all[c]])


\* The number of primary-key fields of the flat struct type a: the tagged
\* ones, or else the one named ID or Id.
KeyCount(a) ==
  LET tagged == {i \in 1..Len(a.fields) : a.fields[i].Tag = <<"p", "k">>}
      names == {a.fields[i].Name : i \in 1..Len(a.fields)}
  IN  IF tagged # {} THEN Cardinality(tagged)
      ELSE IF nameID \in names \/ nameId \in names THEN 1 ELSE 0

\* The model the last call was about, as the caller passed it.
CalledModel ==
  IF bcall.fn = "SelectQuery.Model" THEN bcall.args.model ELSE mq.given

\* C13: a model operation on a value that is no struct fails with a
\* VarTypeError; Update, Delete and SelectQuery.Model on a type without
\* primary key fail with MissingPKError; SelectQuery.Model on a type with
\* more than one primary-key field fails with CompositePKError; the three
\* conditions differ, and in each case no call reaches the Executor.
C13_ModelErrors ==
  /\ bcall.fn \in {"ModelQuery.Insert", "ModelQuery.Update", "ModelQuery.Delete",
                   "SelectQuery.Model"} =>
       /\ CalledModel.kind # "struct" =>
            ret.err.kind = "VarTypeError" /\ sent = NoCall
       /\ (CalledModel.kind = "struct" /\ KeyCount(CalledModel.type) = 0
             /\ bcall.fn # "ModelQuery.Insert") =>
            ret.err = MissingPKError /\ sent = NoCall
       /\ (CalledModel.kind = "struct" /\ KeyCount(CalledModel.type) > 1
             /\ bcall.fn = "SelectQuery.Model") =>
            ret.err = CompositePKError /\ sent = NoCall
  /\ MissingPKError # CompositePKError
  /\ \A msg \in {"must be a pointer to a struct",
                 "must be a pointer to a struct representing the model"} :
       VarTypeError(msg) \notin {MissingPKError, CompositePKError, NoError, ExecutorError}

\* SelectQuery.Model was called for a model with two key fields and
\* returned CompositePKError.
C13_Witness ==
  /\ bcall.fn = "SelectQuery.Model"
  /\ bcall.args.model.kind = "struct"
  /\ bcall.args.model.type = ModelTwo
  /\ ret.err = CompositePKError
  /\ sent = NoCall

(***************************************************************************)
(* C14, C17, C19: the builders' statements                                 *)
(***************************************************************************)

\* The last builder call was for an operation the dialect does not have.
UnsupportedCalled ==
  \/ bcall.fn = "Upsert" /\ newBuilder(driverName) # "mysql"
  \/ bcall.fn \in DOMAIN SqliteUnsupported

\* C14: an operation the dialect cannot express returns a Query without SQL
\* that carries an unsupported-operation error, and every later Execute or
\* Rows on it returns that error and passes nothing to the Executor.
C14_UnsupportedReturned ==
  UnsupportedCalled =>
    /\ query.sql = <<>>
    /\ ret.op = bcall.fn => query.LastError.kind = "unsupported"
    /\ ret.op \in {"Execute", "Rows"} =>
         /\ ret.err.kind = "unsupported"
         /\ sent = NoCall

\* C14, amended: such a Query has no SQL and always carries an error, the
\* unsupported-operation error until a failed Prepare replaces it; every
\* later Execute or Rows returns the error the Query carries and passes
\* nothing to the Executor.
C14_UnsupportedNeverSent ==
  UnsupportedCalled =>
    /\ query.sql = <<>>
    /\ query.LastError.kind \in {"unsupported", "executor"}
    /\ ret.op = bcall.fn => query.LastError.kind = "unsupported"
    /\ ret.op \in {"Execute", "Rows"} =>
         /\ ret.err = query.LastError
         /\ sent = NoCall

\* SqliteBuilder.DropColumn was called and Rows then returned its error.
C14_Witness ==
  /\ bcall.fn = "DropColumn"
  /\ ret = [op |-> "Rows", err |-> UnsupportedError("SQLite does not support dropping columns")]
  /\ sent = NoCall


\* The column map of the last builder call and its names in ascending order.
ColsCalled == bcall.args.cols

SortedNames == Ascending(DOMAIN ColsCalled)

\* The Params map the Query holds.
Bound == heap[query.params]

\* The INSERT statement over the sorted names with {:p0}.. in that order.
InsertText ==
  LET n == Len(SortedNames)
  IN  IF n = 0 THEN "INSERT INTO " \o QuoteTable(driverName, bcall.args.table) \o " DEFAULT VALUES"
      ELSE "INSERT INTO " \o QuoteTable(driverName, bcall.args.table) \o " ("
             \o JoinStr([i \in 1..n |-> QuoteCol(driverName, SortedNames[i])], ", ")
             \o ") VALUES ("
             \o JoinStr([i \in 1..n |-> "{:" \o ParamName(i - 1) \o "}"], ", ") \o ")"

\* C19: Insert over n plain values renders the quoted columns in ascending
\* order of name with {:p0}..{:p(n-1)} in the same order, {:pi} bound to the
\* value of the i-th column, whatever the iteration order of the map; with
\* no column it renders INSERT INTO <table> DEFAULT VALUES and binds nothing.
C19_InsertSorted ==
  (bcall.fn = "Insert" /\ PlainMap(ColsCalled)) =>
    /\ query.sql = Chars(InsertText)
    /\ DOMAIN Bound = {ParamName(i - 1) : i \in 1..Len(SortedNames)}
    /\ \A i \in 1..Len(SortedNames) : Bound[ParamName(i - 1)] = ColsCalled[SortedNames[i]]

\* Insert of {a: nil, ab: 1, B: 1} has rendered B, a, ab.
C19_Witness ==
  /\ bcall.fn = "Insert"
  /\ ColsCalled = (<<"a">> :> NilV) @@ (<<"a", "b">> :> IntV(1)) @@ (<<"B">> :> IntV(1))
  /\ query.sql = Chars("INSERT INTO \"t\" (\"B\", \"a\", \"ab\") VALUES ({:p0}, {:p1}, {:p2})")
  /\ Bound = ("p0" :> IntV(1)) @@ ("p1" :> NilV) @@ ("p2" :> IntV(1))

\* Insert of no column has rendered DEFAULT VALUES.
C19_WitnessDefault ==
  /\ bcall.fn = "Insert"
  /\ DOMAIN ColsCalled = {}
  /\ query.sql = Chars("INSERT INTO \"t\" DEFAULT VALUES")
  /\ Bound = EmptyParams

\* C17: MySQL Upsert over n plain values renders the INSERT statement
\* followed by " ON DUPLICATE KEY UPDATE " and col={:p(n+i)} for all n
\* columns in ascending order; p0..p(n-1) and p(n)..p(2n-1) are each bound
\* to the value of their column.
C17_UpsertParams ==
  (bcall.fn = "Upsert" /\ newBuilder(driverName) = "mysql" /\ PlainMap(ColsCalled)) =>
    LET n == Len(SortedNames)
    IN  /\ query.sql =
             Chars(InsertText \o " ON DUPLICATE KEY UPDATE "
                     \o JoinStr([i \in 1..n |-> QuoteCol(driverName, SortedNames[i]) \o "={:"
                                                  \o ParamName(n + i - 1) \o "}"], ", "))
        /\ DOMAIN Bound = {ParamName(i) : i \in 0..(2 * n - 1)}
        /\ \A i \in 1..n :
             /\ Bound[ParamName(i - 1)] = ColsCalled[SortedNames[i]]
             /\ Bound[ParamName(n + i - 1)] = ColsCalled[SortedNames[i]]

\* Upsert of {a: nil, B: 1} on MySQL has bound p0..p3.
C17_Witness ==
  /\ bcall.fn = "Upsert"
  /\ driverName = "mysql"
  /\ ColsCalled = (<<"a">> :> NilV) @@ (<<"B">> :> IntV(1))
  /\ Bound = ("p0" :> IntV(1)) @@ ("p1" :> NilV) @@ ("p2" :> IntV(1)) @@ ("p3" :> NilV)
  /\ ret.op = "Upsert"

(***************************************************************************)
(* C18: a Query is bound and executed repeatedly.                          *)
(***************************************************************************)

\* The Params maps the Query has been bound with, in the order of the calls.
Binds == IF bcall.fn = "Bind" THEN bcall.args.binds ELSE <<>>

\* The calls by which name has been bound.
BoundBy(name) == {k \in 1..Len(Binds) : name \in DOMAIN Binds[k]}

\* The value most recently bound to name.
MostRecent(name) ==
  LET k == CHOOSE k \in BoundBy(name) : \A j \in BoundBy(name) : j <= k
  IN  Binds[k][name]

\* Every placeholder of the Query has been bound at least once.
AllBound == \A i \in 1..Len(query.placeholders) : BoundBy(query.placeholders[i]) # {}

\* Execute or Rows has just returned.
Executed == query # NoQuery /\ ret.op \in {"Execute", "Rows"}

\* What an execution passes to the Executor: for each occurrence of a
\* placeholder the value most recently bound to its name, through the
\* prepared statement if there is one.
PassedMostRecent ==
  /\ sent # NoCall
  /\ sent.args = [i \in 1..Len(query.placeholders) |-> MostRecent(query.placeholders[i])]
  /\ sent.fn = (IF query.stmt THEN "stmt." ELSE "")
                 \o (IF ret.op = "Execute" THEN "Exec" ELSE "Query")

\* C18: after any sequence of Bind calls the next execution passes to the
\* Executor, for each occurrence of a placeholder, the value most recently
\* bound to its name, and uses the prepared statement from Prepare until
\* Close.
C18_ReusableTemplate == (Executed /\ AllBound) => PassedMostRecent

\* The same for the executions that reach the Executor; the others return
\* the error the Query carries.
C18_WhenExecuted ==
  (Executed /\ AllBound) =>
    IF sent # NoCall THEN PassedMostRecent
    ELSE ret.err # NoError /\ ret.err = query.LastError

\* A prepared Query bound twice has passed the later value of a to stmt.Exec.
C18_Rebound ==
  /\ Executed
  /\ query.stmt
  /\ Binds = << [n \in {"a"} |-> IntV(1)], [n \in {"a", "b"} |-> IntV(2)] >>
  /\ sent = [fn |-> "stmt.Exec", sql |-> query.rawSQL, args |-> <<IntV(2)>>]
(***************************************************************************)
(* C15, C16: pagination on the dialects without LIMIT.                     *)
(***************************************************************************)

\* The positions at which needle occurs in hay (both as characters).
At(hay, needle) ==
  {k \in 1..(Len(hay) - Len(needle) + 1) : SubSeq(hay, k, k + Len(needle) - 1) = needle}

\* The statement SelectQuery.Build is about to return, as characters.
Rendered == Chars(pass.sql)

\* Pagination is requested: MSSQL paginates unless both are negative.
Paged == sel.limit >= 0 \/ sel.offset >= 0

SynthesizedAt == At(Rendered, Chars("ORDER BY (SELECT NULL)"))

OffsetAt ==
  At(Rendered, Chars("\nOFFSET " \o Num(IF sel.offset < 0 THEN 0 ELSE sel.offset) \o " ROWS"))

FetchAt == At(Rendered, Chars("\nFETCH NEXT " \o Num(IF sel.limit < 0 THEN 0 ELSE sel.limit) \o " ROWS ONLY"))

GivenOrderAt == At(Rendered, Chars(BuildOrderBy(driverName, sel.orderBy)))

\* C15: on MSSQL, a paginated statement without ordering contains a
\* synthesized ORDER BY (SELECT NULL), then OFFSET m ROWS (m the offset, 0
\* when the offset is negative), then FETCH NEXT n ROWS ONLY exactly when
\* the limit n is not negative; when an ordering is given, it is the one
\* rendered (before OFFSET when paginated) and nothing is synthesized.
C15_SynthesizedOrder ==
  (newBuilder(driverName) = "mssql" /\ pass.at = "query") =>
    /\ (Paged /\ sel.orderBy = <<>>) =>
         /\ SynthesizedAt # {}
         /\ OffsetAt # {}
         /\ \A i \in SynthesizedAt, j \in OffsetAt : i < j
    /\ Paged =>
         /\ OffsetAt # {}
         /\ sel.limit >= 0 => FetchAt # {} /\ \A j \in OffsetAt, k \in FetchAt : j < k
         /\ sel.limit < 0 => At(Rendered, Chars("FETCH")) = {}
    /\ sel.orderBy # <<>> =>
         /\ SynthesizedAt = {}
         /\ GivenOrderAt # {}
         /\ \A i \in GivenOrderAt, j \in OffsetAt : i < j
    /\ ~Paged => At(Rendered, Chars("OFFSET")) = {} /\ SynthesizedAt = {}

C15_Witness ==
  /\ driverName = "mssql"
  /\ pass.at = "query"
  /\ sel.limit = 10 /\ sel.offset = 2 /\ sel.orderBy = <<>>
  /\ pass.sql = "SELECT * FROM [t]\nORDER BY (SELECT NULL)\nOFFSET 2 ROWS\nFETCH NEXT 10 ROWS ONLY"


\* The text of s between the first occurrence of a and the next occurrence
\* of b after it (the end of s when there is none).
TextBetween(s, a, b) ==
  LET i == MinPos(At(s, a)) + Len(a)
      js == {k \in At(s, b) : k >= i}
  IN  SubSeq(s, i, IF js = {} THEN Len(s) ELSE MinPos(js) - 1)

\* The first line of a statement: the clauses SelectQuery.Build joins by
\* spaces, before the ORDER BY the OCI and MSSQL builders put on a new line.
FirstLine(s) ==
  LET ks == At(s, Chars("\n"))
  IN  IF ks = {} THEN s ELSE SubSeq(s, 1, MinPos(ks) - 1)

\* The items of a select list, which are separated by ", ".
RECURSIVE SelectItems(_)
SelectItems(list) ==
  LET ks == At(list, <<",", " ">>)
  IN  IF ks = {} THEN <<list>>
      ELSE <<SubSeq(list, 1, MinPos(ks) - 1)>>
             \o SelectItems(SubSeq(list, MinPos(ks) + 2, Len(list)))

\* The columns a select item contributes to the result: those of the table
\* for * and T.*, the alias for "e as alias", the item itself otherwise.
ItemColumns(item, tableColumns) ==
  LET as == At(item, <<" ", "a", "s", " ">>)
  IN  IF item = <<"*">> \/ (Len(item) >= 2 /\ SubSeq(item, Len(item) - 1, Len(item)) = <<".", "*">>)
      THEN tableColumns
      ELSE IF as # {} THEN <<SubSeq(item, MinPos(as) + 4, Len(item))>>
      ELSE <<item>>

RECURSIVE ListColumns(_, _)
ListColumns(items, tableColumns) ==
  IF items = <<>> THEN <<>>
  ELSE ItemColumns(items[1], tableColumns) \o ListColumns(Tail(items), tableColumns)

\* The columns of the tables a statement of the model selects from; the
\* tables themselves are not modelled.
BaseColumns == << <<"t", ".", "*">> >>

\* The column list of the inner query: the statement SelectQuery.Build
\* renders selects * from its tables.
InnerColumns(inner) ==
  ListColumns(SelectItems(TextBetween(FirstLine(inner), Chars("SELECT "), Chars(" FROM "))),
              BaseColumns)

\* The column list of the statement OciQueryBuilder returns: for a wrapped
\* statement, the select list of the outer SELECT over the derived table
\* PAGINATION, whose columns are those of its own select list over USER_SQL.
ResultColumns(stmt) ==
  IF At(stmt, Chars("WITH USER_SQL AS (")) # {1} THEN InnerColumns(stmt)
  ELSE LET inner == TextBetween(stmt, Chars("WITH USER_SQL AS ("), Chars("),\n\tPAGINATION AS ("))
           pagination ==
             ListColumns(SelectItems(TextBetween(stmt, Chars("PAGINATION AS (SELECT "),
                                             Chars(" FROM USER_SQL)"))),
                         InnerColumns(inner))
           outer == TextBetween(stmt, Chars(")\nSELECT "), Chars(" FROM PAGINATION"))
       IN  ListColumns(SelectItems(outer), pagination)

OciPaged == sel.limit >= 0 \/ sel.offset > 0

\* The inner query of the statement being built: what the OCI builder
\* renders for the same clauses without limit and offset.
OciInner ==
  Chars(OciBuildOrderByAndLimit(driverName, JoinClauses(pass.clauses, ""), sel.orderBy, -1, -1))

\* C16, first half: on OCI, a paginated statement is the inner query in a
\* derived table with a row-number column, filtered on the row number.
C16_Wrapped ==
  (newBuilder(driverName) = "oci" /\ pass.at = "query" /\ OciPaged) =>
    /\ At(Rendered, Chars("WITH USER_SQL AS (")) = {1}
    /\ TextBetween(Rendered, Chars("WITH USER_SQL AS ("), Chars("),\n\tPAGINATION AS (")) = OciInner
    /\ At(Rendered, Chars("rownum as rowNumId")) # {}
    /\ \E k \in At(Rendered, Chars(" WHERE row")) :
         \A j \in At(Rendered, Chars("FROM PAGINATION")) : j < k

\* C16: on OCI, a paginated statement returns exactly the column list of
\* the inner query; the row-number column is not part of the result.
C16_InnerColumnsOnly ==
  (newBuilder(driverName) = "oci" /\ pass.at = "query" /\ OciPaged) =>
    ResultColumns(Rendered) = InnerColumns(OciInner)

\* An OCI statement is paginated and returns the row-number column as well.
C16_RowNumReturned ==
  /\ newBuilder(driverName) = "oci" /\ pass.at = "query"
  /\ sel.limit = 10 /\ sel.offset = 2
  /\ ResultColumns(Rendered) = InnerColumns(OciInner) \o << Chars("rowNumId") >>


(***************************************************************************)
(* C20: what Transactional returns when the transaction is finished        *)
(* already, and when its own rollback fails.                               *)
(***************************************************************************)

\* The deferred function is about to run after the callback has returned.
CallbackReturned == tx.pc = "deferred" /\ tx.outcome \in {"nil", "err"}

\* C20: when the transaction has been committed or rolled back before the
\* callback returns, Transactional returns the callback's outcome alone
\* (nil, or the callback's error) and never sql.ErrTxDone; when its own
\* rollback fails with another error, it returns Errors{callback's error,
\* rollback error}.
C20_CallbackOutcome ==
  [][ CallbackReturned =>
        /\ tx.state \in {"committed", "rolledback"} =>
             tx'.ret = [kind |-> "return",
                        err |-> IF tx.outcome = "nil" THEN <<>> ELSE <<"callback">>]
        /\ \A i \in 1..Len(tx'.ret.err) : tx'.ret.err[i] # "ErrTxDone"
        /\ (tx.outcome = "err" /\ tx'.res \notin {"nil", "ErrTxDone"}) =>
             tx'.ret = [kind |-> "return", err |-> <<"callback", tx'.res>>] ]_vars

\* The callback committed and returned an error: Transactional's rollback
\* met sql.ErrTxDone and the callback's error alone was returned.
C20_Witness ==
  /\ tx.pc = "left"
  /\ tx.variant = "Transactional"
  /\ tx.state = "committed"
  /\ tx.outcome = "err"
  /\ tx.own = <<"Rollback">>
  /\ tx.res = "ErrTxDone"
  /\ tx.ret = [kind |-> "return", err |-> <<"callback">>]

\* Transactional's rollback failed: both errors were returned.
C20_WitnessErrors ==
  /\ tx.pc = "left"
  /\ tx.outcome = "err"
  /\ tx.res = "driver error"
  /\ tx.ret = [kind |-> "return", err |-> <<"callback", "driver error">>]

(***************************************************************************)
(* C21: a stored structInfo is immutable                                   *)
(***************************************************************************)

\* The structInfo that build makes of key's type, complete.
FinishedBuild(key) == build(NewStructInfo, key.t, <<>>, <<>>, <<>>, key.m)

\* C21: once a structInfo is in the cache, no step of any caller
\* (getStructInfo again, or the reads made by columns and pk) changes its
\* name map, column map or primary-key list, and a structInfo a caller
\* holds is always the finished build of its key.
C21_StoredImmutable ==
  [][ /\ \A key \in DOMAIN structInfoMap :
           /\ key \in DOMAIN structInfoMap'
           /\ structInfoMap'[key] = structInfoMap[key]
      /\ \A p \in Callers :
           callers'[p].pc \in {"unlock", "done"} =>
             callers'[p].ret.info = FinishedBuild(callers'[p].key) ]_vars

\* Both keys are built and stored; a goroutine holds the structInfo built
\* first, with its primary key, and the others have read theirs and left.
C21_Witness ==
  /\ Len(built) = 2
  /\ \E p \in Callers :
       /\ callers[p].pc = "done"
       /\ \A q \in Callers \ {p} : callers[q].pc = "idle"
       /\ callers[p].ret.id = 1
       /\ callers[p].ret.info.pkNames # <<>>

(***************************************************************************)
(* C22: explicit primary keys exclude the inferred one                     *)
(***************************************************************************)

\* The logical names of the mapped fields of a that carry a pk tag.
RECURSIVE PkTagged(_, _)
PkTagged(a, prefix) ==
  UNION { LET f == a.fields[i]
              own == IF f.Anonymous THEN <<>> ELSE f.Name
          IN  IF f.Tag = <<"-">> \/ (~f.Anonymous /\ f.Name[1] \notin UpperChars) THEN {}
              ELSE IF f.Type.kind = "struct" THEN PkTagged(f.Type, concat(prefix, own))
              ELSE IF parseTag(f.Tag).isPK THEN {concat(prefix, own)}
              ELSE {}
          : i \in 1..Len(a.fields) }

\* C22: if a field of the type, at any depth and wherever it is declared,
\* carries a pk tag, the primary-key list names tagged fields only: no
\* field is in it by inference from its name.
C22_ExplicitOnly ==
  (callers[1].pc = "done" /\ ~NoPkTag(AskedType)) =>
    \A i \in 1..Len(ReturnedInfo.pkNames) :
      ReturnedInfo.pkNames[i] \in PkTagged(AskedType, <<>>)

\* An embedded struct with a field ID is declared before the field tagged
\* pk: ID was inferred when the embedded struct had been walked, and the
\* tagged field was added to it.
C22_InferredBesideExplicit ==
  /\ callers[1].pc = "done"
  /\ AskedType = StructType(<<Embedded(<<"E">>, <<>>, StructType(<<Field(nameID, <<>>, ScalarType)>>)),
                              Field(<<"N">>, <<"p", "k">>, ScalarType)>>)
  /\ ReturnedInfo.pkNames = <<nameID, <<"N">>>>

\* The same two fields declared the other way round: the tagged field alone.
C22_ExplicitFirst ==
  /\ callers[1].pc = "done"
  /\ AskedType = StructType(<<Field(<<"N">>, <<"p", "k">>, ScalarType),
                              Embedded(<<"E">>, <<>>, StructType(<<Field(nameID, <<>>, ScalarType)>>))>>)
  /\ ReturnedInfo.pkNames = << <<"N">> >>

(***************************************************************************)
(* C23: the executed SQL is the preprocessing of the template              *)
(***************************************************************************)

\* C23: for every Query, the SQL kept for the executor and the placeholder
\* list are the preprocessing of the template SQL() returns, also when the
\* template was extended after the Query was made.
C23_PreprocessedTemplate ==
  query # NoQuery =>
    /\ query.rawSQL = processSQL(driverName, query.sql).sql
    /\ query.placeholders = processSQL(driverName, query.sql).placeholders

\* MysqlBuilder.Upsert of one value: the template holds the update branch
\* with its parameter, the SQL for the executor is the INSERT alone.
C23_UpsertBranchLost ==
  /\ driverName = "mysql"
  /\ bcall.fn = "Upsert"
  /\ bcall.args.cols = (<<"a">> :> IntV(1))
  /\ At(query.sql, Chars(" ON DUPLICATE KEY UPDATE ")) # {}
  /\ At(query.rawSQL, Chars(" ON DUPLICATE KEY UPDATE ")) = {}
  /\ Len(query.placeholders) = 1
  /\ DOMAIN heap[query.params] = {"p0", "p1"}

(***************************************************************************)
(* C24: And/Or of entries that all render empty                            *)
(***************************************************************************)

\* C24: an And/Or whose entries are all nil or render the empty string
\* renders the empty string, never a pair of parentheses with nothing
\* between them.
C24_NoEmptyParentheses ==
  (bPhase = "built" /\ bExp.t = "AndOr") =>
    /\ bSql # "()"
    /\ (\A i \in 1..Len(bExp.exps) :
          \/ bExp.exps[i] = NilV
          \/ \A it \in IterOrders : Build(driverName, bExp.exps[i], EmptyParams, it).sql = "")
         => bSql = ""

\* And(nil, NotIn("a")): the one entry that is not nil renders empty, and
\* what And rendered is "()".
C24_EmptyParentheses ==
  /\ bPhase = "built"
  /\ bExp = And(<<NilV, NotIn(<<"a">>, <<>>)>>)
  /\ bSql = "()"

(***************************************************************************)
(* C25: the name map, the column map and the primary-key list agree        *)
(***************************************************************************)

\* The field of a at index path.
RECURSIVE FieldAt(_, _)
FieldAt(a, path) ==
  IF Len(path) = 1 THEN a.fields[path[1] + 1]
  ELSE FieldAt(a.fields[path[1] + 1].Type, Tail(path))

\* C25: in the structInfo of any type, every entry of dbNameMap is the
\* field nameMap holds for its name, the primary-key list names no field
\* twice, and every field it names is in nameMap and is a primary key: it
\* carries the pk tag, or it is the ID or Id the key is inferred from.
C25_ViewsAgree ==
  callers[1].pc = "done" =>
    LET si == ReturnedInfo
    IN  /\ \A d \in DOMAIN si.dbNameMap :
             /\ si.dbNameMap[d].name \in DOMAIN si.nameMap
             /\ si.nameMap[si.dbNameMap[d].name] = si.dbNameMap[d]
        /\ \A i, j \in 1..Len(si.pkNames) : i # j => si.pkNames[i] # si.pkNames[j]
        /\ \A i \in 1..Len(si.pkNames) :
             /\ si.pkNames[i] \in DOMAIN si.nameMap
             /\ \/ parseTag(FieldAt(AskedType, si.nameMap[si.pkNames[i]].path).Tag).isPK
                \/ si.pkNames[i] \in {nameID, nameId}

\* The embedded struct's ID, column x, is declared before the field ID that
\* shadows it: dbNameMap still maps x to the shadowed field.
C25_StaleColumn ==
  /\ callers[1].pc = "done"
  /\ AskedType = StructType(<<Embedded(<<"E">>, <<>>, StructType(<<Field(nameID, <<"x">>, ScalarType)>>)),
                              Field(nameID, <<>>, ScalarType)>>)
  /\ callers[1].key.m = "nil"
  /\ DOMAIN ReturnedInfo.dbNameMap = {<<"x">>, nameID}
  /\ ReturnedInfo.dbNameMap[<<"x">>].path = <<0, 0>>
  /\ ReturnedInfo.nameMap[nameID].path = <<1>>

\* The embedded struct's N is tagged pk and so is the field N that shadows
\* it: N is in the primary-key list twice.
C25_KeyTwice ==
  /\ callers[1].pc = "done"
  /\ AskedType = StructType(<<Embedded(<<"E">>, <<>>, StructType(<<Field(<<"N">>, <<"p", "k">>, ScalarType)>>)),
                              Field(<<"N">>, <<"p", "k">>, ScalarType)>>)
  /\ ReturnedInfo.pkNames = << <<"N">>, <<"N">> >>

\* The embedded struct's N is tagged pk, the field N that shadows it is
\* not: N stays in the primary-key list.
C25_KeyOfShadowed ==
  /\ callers[1].pc = "done"
  /\ AskedType = StructType(<<Embedded(<<"E">>, <<>>, StructType(<<Field(<<"N">>, <<"p", "k">>, ScalarType)>>)),
                              Field(<<"N">>, <<>>, ScannerType)>>)
  /\ ReturnedInfo.pkNames = << <<"N">> >>
  /\ ReturnedInfo.nameMap[<<"N">>].path = <<1>>

(***************************************************************************)
(* C26: a SelectQuery without Limit and Offset                             *)
(***************************************************************************)

\* The SelectQuery holds the limit and the offset NewSelectQuery gave it.
Unpaged == sel.limit = -1 /\ sel.offset = 0

\* C26: a SelectQuery whose limit and offset are those of NewSelectQuery
\* renders no pagination clause on any dialect, and no ORDER BY unless an
\* ordering was given.
C26_NoPaginationByDefault ==
  (pass.at = "query" /\ Unpaged) =>
    /\ \A word \in {"LIMIT", "OFFSET", "FETCH", "rowNum", "PAGINATION"} :
         At(Rendered, Chars(word)) = {}
    /\ SynthesizedAt = {}
    /\ sel.orderBy = <<>> => At(Rendered, Chars("ORDER BY")) = {}

\* On MSSQL a SelectQuery on which only From was called is rendered with a
\* synthesized ordering and OFFSET 0 ROWS.
C26_MssqlDefaultPaged ==
  /\ newBuilder(driverName) = "mssql"
  /\ pass.at = "query"
  /\ Unpaged
  /\ sel.orderBy = <<>>
  /\ pass.sql = "SELECT * FROM [t]\nORDER BY (SELECT NULL)\nOFFSET 0 ROWS"

(***************************************************************************)
(* C27: a Query after a failed execution                                   *)
(***************************************************************************)

\* Every placeholder of the Query has a value in the Params map it holds.
NowBound == \A i \in 1..Len(query.placeholders) : query.placeholders[i] \in DOMAIN Bound

\* The error the Query carries comes from an execution: a parameter was
\* missing, or Execute or Rows has just returned the Executor's error.
FailedExecution ==
  /\ query # NoQuery
  /\ query.LastError # NoError
  /\ \/ query.LastError.kind = "missing"
     \/ ret.op \in {"Execute", "Rows"}

\* C27: after an execution that failed, an Execute or Rows called when
\* every placeholder has a value is passed on to the Executor; it does not
\* return the earlier error.
C27_UsableAfterFailure ==
  [][ (FailedExecution /\ NowBound /\ ret'.op \in {"Execute", "Rows"}) =>
        sent' # NoCall ]_vars

\* Execute failed for the missing b, b was bound, and the next Execute
\* returned the same error without calling the Executor.
C27_StillFailing ==
  /\ Executed
  /\ NowBound
  /\ Len(Binds) = 1
  /\ ret.err.kind = "missing"
  /\ sent = NoCall

(***************************************************************************)
(* C28: the Params maps the caller passed to Bind                          *)
(***************************************************************************)

\* The map the caller passed to the k-th Bind, as it is now: the maps are
\* numbered in the order in which they come into being, the Query's own
\* first.
CallerMap(k) == heap[k + 1]

\* C28: whatever is bound later, every map the caller passed to Bind holds
\* the entries the caller put into it.
C28_CallerMapsKept ==
  query # NoQuery => \A k \in 1..Len(Binds) : CallerMap(k) = Binds[k]

\* Bind(Params{"a": 1}) then Bind(Params{"b": 1}): the first map now holds
\* b as well, and it is the map the Query holds.
C28_FirstMapGrown ==
  /\ query # NoQuery
  /\ Len(Binds) = 2
  /\ Binds[1] = [n \in {"a"} |-> IntV(1)]
  /\ Binds[2] = [n \in {"b"} |-> IntV(1)]
  /\ query.params = 2
  /\ CallerMap(1) = [n \in {"a", "b"} |-> IntV(1)]
  /\ CallerMap(2) = Binds[2]

(***************************************************************************)
(* C29: running a SelectQuery leaves its clauses as they were              *)
(***************************************************************************)

\* C29: when SelectQuery.Model has returned, the SelectQuery holds the
\* tables, the conditions and the parameters it held when Model was called.
C29_ClauseStateKept ==
  (sel # NoSelect /\ bcall.fn = "SelectQuery.Model") =>
    /\ sel.from = bcall.args.on.from
    /\ sel.where = bcall.args.on.where
    /\ sel.having = bcall.args.on.having
    /\ sel.params = bcall.args.on.params

\* Model(5, &m) was called on a SelectQuery without table and condition and
\* ran: the SelectQuery now names the model's table and holds the condition
\* on the key.
C29_ModelLeftClauses ==
  /\ sel # NoSelect
  /\ bcall.fn = "SelectQuery.Model"
  /\ bcall.args.on.from = <<>>
  /\ bcall.args.on.where = NilV
  /\ sent # NoCall
  /\ Len(sel.from) = 1
  /\ sel.where # NilV
  /\ sel.where.t = "AndOr"

(***************************************************************************)
(* C30: the fragments of Not, And and Or read as conditions                *)
(***************************************************************************)

\* The fragments of the entries of exps that are not nil, in order, the
\* empty ones included, each entry built on the Params map the entries
\* before it left.
RECURSIVE OperandFragments(_, _, _)
OperandFragments(db, exps, params) ==
  IF exps = <<>> THEN <<>>
  ELSE IF exps[1] = NilV THEN OperandFragments(db, Tail(exps), params)
  ELSE <<Build(db, exps[1], params, AnOrder).sql>>
         \o OperandFragments(db, Tail(exps), Build(db, exps[1], params, AnOrder).params)

\* The fragments that are conditions on the row: neither empty nor 0=1.
Atoms(frags) == {frags[i] : i \in 1..Len(frags)} \ {"", "0=1"}

\* What fragment f says when the conditions on the row are as v has them:
\* the empty fragment is true, 0=1 is false.
Truth(f, v) == IF f = "" THEN TRUE ELSE IF f = "0=1" THEN FALSE ELSE v[f]

\* AND, or OR, of what the fragments say.
Combined(op, frags, v) ==
  IF op = "AND" THEN \A i \in 1..Len(frags) : Truth(frags[i], v)
  ELSE \E i \in 1..Len(frags) : Truth(frags[i], v)

\* What the fragment sql says, read as the negation of f: no value if it
\* is not of that form.
ReadNot(sql, f, v) ==
  IF sql = "" THEN {TRUE}
  ELSE IF sql = "NOT (" \o f \o ")" THEN {~Truth(f, v)}
  ELSE {}

\* What the fragment sql says, read as one of the fragments of frags or as
\* (f1) op (f2) ... of those that are not empty: no value if it is not of
\* that form.
ReadAndOr(sql, op, frags, v) ==
  LET ne == SelectSeq(frags, LAMBDA f : f # "")
  IN  IF sql = "" THEN {TRUE}
      ELSE IF Len(ne) = 1 /\ sql = ne[1] THEN {Truth(ne[1], v)}
      ELSE IF Len(ne) >= 2 /\ sql = Parenthesised(ne, op) THEN {Combined(op, ne, v)}
      ELSE {}

\* The fragment sql of Not(e), e rendering f, says the negation of f.
NotEquivalent(sql, f) ==
  \A v \in [Atoms(<<f>>) -> BOOLEAN] : ReadNot(sql, f, v) = {~Truth(f, v)}

\* The fragment sql of And/Or over entries rendering frags says the AND/OR
\* of what they say.
AndOrEquivalent(sql, op, frags) ==
  \A v \in [Atoms(frags) -> BOOLEAN] : ReadAndOr(sql, op, frags, v) = {Combined(op, frags, v)}

\* C30: with the empty fragment read as true and 0=1 as false, what Not,
\* And and Or render says NOT, AND and OR of what their operands render,
\* whatever the conditions on the row are.
C30_LogicalEquivalence ==
  [][ BuildStep =>
        /\ bExp.t = "Not" =>
             NotEquivalent(bSql', Build(driverName, bExp.e, bParams, AnOrder).sql)
        /\ (bExp.t = "AndOr" /\ \E i \in 1..Len(bExp.exps) : bExp.exps[i] # NilV) =>
             AndOrEquivalent(bSql', bExp.op, OperandFragments(driverName, bExp.exps, bParams)) ]_vars

\* Not(NotIn("a")): the operand renders empty, which is true, and so does
\* its negation.
C30_NotOfTrue ==
  /\ bPhase = "built"
  /\ bExp = Not(NotIn(<<"a">>, <<>>))
  /\ bSql = ""

\* Or(x=1, NotIn("a")): the second operand is true, and the fragment is the
\* first operand alone.
C30_OrDropsTrue ==
  /\ bPhase = "built"
  /\ bExp = Or(<<NoParamExp, NotIn(<<"a">>, <<>>)>>)
  /\ bSql = "x=1"

====
